---------------------------- MODULE Spec2Model ----------------------------
(***************************************************************************)
(* A model of the BigLinux Swap Manager configuration core                 *)
(* (biglinux_swap/config.py), of the live-statistics helpers               *)
(* of biglinux_swap/ui/unified_view.py, of the view's edit callbacks, of    *)
(* the apply flow of biglinux_swap/window.py with the privileged helpers   *)
(* of biglinux_swap/utils.py, and of biglinux_swap/ui/memory_chart.py.     *)
(*                                                                         *)
(* Nine specifications share the module:                                  *)
(*   Spec            SwapConfig.to_dict / SwapConfig.from_dict             *)
(*   SpecFleet       SwapFileInfo, removal candidates, removal planning    *)
(*   SpecSizing      progressive sizing of the swap files created          *)
(*   SpecPartitions  SwapPartitionInfo and the storage-type priorities     *)
(*   SpecStats       compression-ratio rows of the live statistics         *)
(*   SpecWindow      edit callbacks, dirty tracking, Apply button, apply   *)
(*                   flow and privileged helpers                           *)
(*   SpecWindowActions  the same, with the application's "apply-config"    *)
(*                   action as a second way into the apply flow            *)
(*   SpecPoll        the periodic status poll                              *)
(*   SpecChart       the history of the memory chart                       *)
(* Each one leaves the variables of the others at their idle values.       *)
(***************************************************************************)
EXTENDS Integers, Sequences, FiniteSets, TLC

VARIABLES
    \* --- Spec: serialise / parse -------------------------------------
    pc,         \* "config" | "dict" | "parsed"
    cfg,        \* the SwapConfig object x that is serialised
    data,       \* the dictionary handed to from_dict
    edits,      \* number of edits applied to the dictionary
    result,     \* outcome of from_dict: raised, or the parsed SwapConfig
    \* --- SpecFleet ------------------------------------------------------
    sfc,        \* the SwapFileConfig fields the fleet rules read
    files,      \* sequence of SwapFileInfo records (index = creation order)
    parts,      \* sequence of SwapPartitionInfo records
    plan,       \* set of file indexes the last planning pass proposes to remove
    planned,    \* TRUE once a planning pass has run on the current fleet
    targets,    \* target sizes (MiB) of the swap files created so far, in order
    \* --- SpecStats ------------------------------------------------------
    status,     \* SwapStatus snapshot fields read by _update_live_statistics
    memStats,   \* _latest_mem_stats: absent (None) or its zram_used
    zramFiles,  \* contents of /sys/block/zram*/mm_stat, in glob order
    zswapRow,   \* text of the zswap ratio row
    zramRow,    \* text of the zram ratio row
    statsPc,    \* "idle" | "polled" | "updated" | "crashed"
    \* --- SpecWindow: UnifiedView and SwapWindow --------------------------
    viewConfig,     \* UnifiedView._config: the fields of the edited SwapConfig
    viewExtra,      \* attributes of _config.zram that are no dataclass fields
    originalConfig, \* UnifiedView._original_config: fields of the saved baseline
    originalExtra,  \* attributes of _original_config.zram that are no fields
    loading,        \* UnifiedView._loading
    visible,        \* visibility of the advanced-settings groups
    hasChanges,     \* <<>>, or <<b>>: the last has_changes passed to on_config_changed
    applyBtn,       \* sensitivity of SwapWindow._apply_btn
    flights,        \* the _apply_config calls made so far, each with its closure
    confFile,       \* content of /etc/systemd/swap.conf
    userActions,      \* number of edit callbacks and restore_defaults so far
    \* --- SpecPoll --------------------------------------------------------
    latestStatus,   \* UnifiedView._latest_swap_status: 0 (None) or a snapshot id
    statusTimer,    \* UnifiedView._status_timer is running
    workers,        \* the _fetch_status threads started, each with its position
    idleQueue,      \* snapshots queued with GLib.idle_add for _apply_status_update
    polls,          \* timer ticks so far
    \* --- SpecChart -------------------------------------------------------
    history,        \* MemoryChartWidget._history, oldest first
    chartTexts,     \* call whose texts _mem_used_text ... hold, 0 for ""
    added,          \* add_data_point calls so far
    phase           \* where in the sample stream the first call starts

parseVars == <<pc, cfg, data, edits, result>>
fleetVars == <<sfc, files, parts, plan, planned, targets>>
statsVars == <<status, memStats, zramFiles, zswapRow, zramRow, statsPc>>
windowVars == <<viewConfig, viewExtra, originalConfig, originalExtra, loading,
                visible, hasChanges, applyBtn, flights, confFile, userActions>>
pollVars == <<latestStatus, statusTimer, workers, idleQueue, polls>>
chartVars == <<history, chartTexts, added, phase>>
vars == <<parseVars, fleetVars, statsVars, windowVars, pollVars, chartVars>>

\* what the actions of one specification leave alone
notParse == <<fleetVars, statsVars, windowVars, pollVars, chartVars>>
notFleet == <<parseVars, statsVars, windowVars, pollVars, chartVars>>
notStats == <<parseVars, fleetVars, windowVars, pollVars, chartVars>>
notChart == <<parseVars, fleetVars, statsVars, windowVars, pollVars>>
\* the window and the poll share _apply_status_update
notWindowPoll == <<parseVars, fleetVars, statsVars, chartVars>>

-----------------------------------------------------------------------------
(* Bounds of the model *)

\* dictionary edits (dropped, unknown, malformed, out-of-range keys) per input
MaxEdits == 1
\* swap files in a status snapshot
MaxFiles == 3
\* swap partitions in a status snapshot
MaxParts == 2
\* zram devices under /sys/block
MaxZramDevices == 2
\* edit callbacks, restore_defaults and clicks on Apply per run of the window
MaxUserActions == 3
\* ticks of the status timer per run
MaxPolls == 3
\* add_data_point calls per run of the chart
MaxPoints == 64

-----------------------------------------------------------------------------
(* config.py: enumerations.  A member is written "Enum.NAME", its value is   *)
(* the string the dictionary carries.                                        *)

SwapMode ==
    { <<"SwapMode.AUTO", "auto">>,
      <<"SwapMode.ZSWAP_SWAPFILE", "zswap+swapfile">>,
      <<"SwapMode.ZRAM_SWAPFILE", "zram+swapfile">>,
      <<"SwapMode.ZRAM_ONLY", "zram">>,
      <<"SwapMode.DISABLED", "disabled">> }

Compressor ==
    { <<"Compressor.LZ4", "lz4">>,
      <<"Compressor.ZSTD", "zstd">>,
      <<"Compressor.LZO", "lzo">> }

MglruTtl ==
    { <<"MglruTtl.AUTO", "auto">>,
      <<"MglruTtl.DISABLED", "0">>,
      <<"MglruTtl.MS_100", "100">>,
      <<"MglruTtl.MS_300", "300">>,
      <<"MglruTtl.MS_600", "600">>,
      <<"MglruTtl.VERY_HIGH_RAM", "1000">>,
      <<"MglruTtl.HIGH_RAM", "3000">>,
      <<"MglruTtl.MEDIUM_RAM", "5000">>,
      <<"MglruTtl.LOW_RAM", "10000">> }

DiscardPolicy ==
    { <<"DiscardPolicy.NONE", "none">>,
      <<"DiscardPolicy.ONCE", "once">>,
      <<"DiscardPolicy.PAGES", "pages">>,
      <<"DiscardPolicy.BOTH", "both">>,
      <<"DiscardPolicy.AUTO", "auto">> }

\* Enum member -> .value
EnumValue(E, m) == (CHOOSE p \in E : p[1] = m)[2]

\* What Enum(value) does with a value that is no member's value
ValueError == "ValueError"

\* Enum(value): the member whose value it is, else ValueError is raised
EnumLookup(E, s) ==
    IF \E p \in E : p[2] = s
    THEN (CHOOSE p \in E : p[2] = s)[1]
    ELSE ValueError

Members(E) == { p[1] : p \in E }

-----------------------------------------------------------------------------
(* config.py: configuration limits and option lists *)

ZSWAP_MAX_POOL_MIN == 10
ZSWAP_MAX_POOL_MAX == 80
ZSWAP_MAX_POOL_DEFAULT == 50
ZSWAP_ACCEPT_THRESHOLD_MIN == 50
ZSWAP_ACCEPT_THRESHOLD_MAX == 100
ZSWAP_ACCEPT_THRESHOLD_DEFAULT == 85
ZRAM_SIZE_MIN == 10
ZRAM_SIZE_MAX == 100
ZRAM_SIZE_DEFAULT == 80
ZRAM_MEM_LIMIT_MIN == 30
ZRAM_MEM_LIMIT_MAX == 90
ZRAM_MEM_LIMIT_DEFAULT == 70
ZRAM_PRIORITY_MIN == 1
ZRAM_PRIORITY_MAX == 32767
ZRAM_PRIORITY_DEFAULT == 32767
ZRAM_WRITEBACK_THRESHOLD_MIN == 10
ZRAM_WRITEBACK_THRESHOLD_MAX == 90
ZRAM_WRITEBACK_THRESHOLD_DEFAULT == 50
ZRAM_WRITEBACK_SIZE_OPTIONS == {"512M", "1G", "2G", "4G"}
ZRAM_WRITEBACK_MAX_SIZE_OPTIONS == {"2G", "4G", "8G", "16G", "32G"}
SWAPFILE_MIN_COUNT == 1
SWAPFILE_MAX_COUNT_MIN == 1
SWAPFILE_MAX_COUNT_MAX == 32
SWAPFILE_MAX_COUNT_DEFAULT == 32
SWAPFILE_SCALING_STEP_MIN == 1
SWAPFILE_SCALING_STEP_MAX == 10
SWAPFILE_SCALING_STEP_DEFAULT == 4
SWAPFILE_SHRINK_THRESHOLD_MIN == 10
SWAPFILE_SHRINK_THRESHOLD_MAX == 50
SWAPFILE_SHRINK_THRESHOLD_DEFAULT == 30
SWAPFILE_SAFE_HEADROOM_MIN == 20
SWAPFILE_SAFE_HEADROOM_MAX == 60
SWAPFILE_SAFE_HEADROOM_DEFAULT == 40
SWAPFILE_PARTITION_THRESHOLD_MIN == 70
SWAPFILE_PARTITION_THRESHOLD_MAX == 100
SWAPFILE_PARTITION_THRESHOLD_DEFAULT == 90
SWAPFILE_PARTITION_PRIORITY_DEFAULT == 100
CHUNK_SIZE_OPTIONS == {"256M", "512M", "1G", "2G", "4G", "8G"}
CHUNK_SIZE_DEFAULT == "512M"
MAX_CHUNK_SIZE_OPTIONS == {"8G", "16G", "32G", "64G", "128G"}
MAX_CHUNK_SIZE_DEFAULT == "64G"

-----------------------------------------------------------------------------
(* config.py: the dataclasses, as default-constructed *)

ZswapConfig ==
    [ compressor       |-> "Compressor.ZSTD",
      max_pool_percent |-> ZSWAP_MAX_POOL_DEFAULT,
      zpool            |-> "zsmalloc",
      shrinker_enabled |-> TRUE,
      accept_threshold |-> ZSWAP_ACCEPT_THRESHOLD_DEFAULT ]

ZramConfig ==
    [ size_percent        |-> ZRAM_SIZE_DEFAULT,
      alg                 |-> "Compressor.LZ4",
      mem_limit_percent   |-> ZRAM_MEM_LIMIT_DEFAULT,
      priority            |-> ZRAM_PRIORITY_DEFAULT,
      writeback_enabled   |-> FALSE,
      writeback_size      |-> "1G",
      writeback_max_size  |-> "8G",
      writeback_threshold |-> 50 ]

SwapFileConfig ==
    [ enabled                   |-> TRUE,
      path                      |-> "/swapfile",
      chunk_size                |-> CHUNK_SIZE_DEFAULT,
      max_chunk_size            |-> MAX_CHUNK_SIZE_DEFAULT,
      max_count                 |-> SWAPFILE_MAX_COUNT_DEFAULT,
      min_count                 |-> SWAPFILE_MIN_COUNT,
      scaling_step              |-> SWAPFILE_SCALING_STEP_DEFAULT,
      shrink_threshold          |-> SWAPFILE_SHRINK_THRESHOLD_DEFAULT,
      safe_headroom             |-> SWAPFILE_SAFE_HEADROOM_DEFAULT,
      use_partitions            |-> TRUE,
      partition_priority        |-> SWAPFILE_PARTITION_PRIORITY_DEFAULT,
      partition_threshold       |-> SWAPFILE_PARTITION_THRESHOLD_DEFAULT,
      min_count_with_partitions |-> 0,
      discard_policy            |-> "DiscardPolicy.AUTO",
      direct_io                 |-> TRUE,
      priority                  |-> -1 ]

\* SwapConfig(): the default-constructed aggregate
SwapConfig ==
    [ mode          |-> "SwapMode.AUTO",
      zswap         |-> ZswapConfig,
      zram          |-> ZramConfig,
      swapfile      |-> SwapFileConfig,
      mglru_min_ttl |-> "MglruTtl.AUTO" ]

-----------------------------------------------------------------------------
(* Dictionaries: a dict is a function from the keys it holds *)

EmptyDict == [k \in {} |-> 0]

\* dict.get(key, default)
Get(d, k, dflt) == IF k \in DOMAIN d THEN d[k] ELSE dflt

\* the dictionary without key k / with key k bound to v
Without(d, k) == [x \in DOMAIN d \ {k} |-> d[x]]
With(d, k, v) == [x \in DOMAIN d \cup {k} |-> IF x = k THEN v ELSE d[x]]

Sections == {"zswap", "zram", "swapfile"}

-----------------------------------------------------------------------------
(* SwapConfig.to_dict: asdict(), then every enum replaced by its value *)

\* to_dict leaving zram.alg as asdict() returns it, an enum member: the
\* serialiser C1 must tell from to_dict
ToDictRawAlg(c) ==
    [ mode          |-> EnumValue(SwapMode, c.mode),
      mglru_min_ttl |-> EnumValue(MglruTtl, c.mglru_min_ttl),
      zswap         |-> [c.zswap EXCEPT !.compressor = EnumValue(Compressor, @)],
      zram          |-> c.zram,
      swapfile      |-> [c.swapfile EXCEPT
                            !.discard_policy = EnumValue(DiscardPolicy, @)] ]

ToDict(c) ==
    [ mode          |-> EnumValue(SwapMode, c.mode),
      mglru_min_ttl |-> EnumValue(MglruTtl, c.mglru_min_ttl),
      zswap         |-> [c.zswap EXCEPT !.compressor = EnumValue(Compressor, @)],
      zram          |-> [c.zram EXCEPT !.alg = EnumValue(Compressor, @)],
      swapfile      |-> [c.swapfile EXCEPT
                            !.discard_policy = EnumValue(DiscardPolicy, @)] ]

-----------------------------------------------------------------------------
(* SwapConfig.from_dict.  The outcome is either a raised ValueError or the   *)
(* parsed configuration.                                                     *)

Raised == [raised |-> TRUE]
\* before from_dict has run
NoResult == [pending |-> TRUE]
Parsed(c) == [raised |-> FALSE, config |-> c]

\* the zswap parse with ZramConfig's compressor default ("lz4") for a missing
\* "compressor" key: the parse C2 must tell from ParseZswap
ParseZswapLz4Default(zs) ==
    [ compressor       |-> EnumLookup(Compressor, Get(zs, "compressor", "lz4")),
      max_pool_percent |-> Get(zs, "max_pool_percent", ZSWAP_MAX_POOL_DEFAULT),
      zpool            |-> Get(zs, "zpool", "zsmalloc"),
      shrinker_enabled |-> Get(zs, "shrinker_enabled", TRUE),
      accept_threshold |-> Get(zs, "accept_threshold",
                               ZSWAP_ACCEPT_THRESHOLD_DEFAULT) ]

\* config.zswap = ZswapConfig(...) from the "zswap" sub-dictionary
ParseZswap(zs) ==
    [ compressor       |-> EnumLookup(Compressor, Get(zs, "compressor", "zstd")),
      max_pool_percent |-> Get(zs, "max_pool_percent", ZSWAP_MAX_POOL_DEFAULT),
      zpool            |-> Get(zs, "zpool", "zsmalloc"),
      shrinker_enabled |-> Get(zs, "shrinker_enabled", TRUE),
      accept_threshold |-> Get(zs, "accept_threshold",
                               ZSWAP_ACCEPT_THRESHOLD_DEFAULT) ]

\* config.zram = ZramConfig(...) from the "zram" sub-dictionary
ParseZram(zr) ==
    [ size_percent        |-> Get(zr, "size_percent", ZRAM_SIZE_DEFAULT),
      alg                 |-> EnumLookup(Compressor, Get(zr, "alg", "lz4")),
      mem_limit_percent   |-> Get(zr, "mem_limit_percent", ZRAM_MEM_LIMIT_DEFAULT),
      priority            |-> Get(zr, "priority", ZRAM_PRIORITY_DEFAULT),
      writeback_enabled   |-> Get(zr, "writeback_enabled", FALSE),
      writeback_size      |-> Get(zr, "writeback_size", "1G"),
      writeback_max_size  |-> Get(zr, "writeback_max_size", "8G"),
      writeback_threshold |-> Get(zr, "writeback_threshold", 50) ]

\* the fallback written as DiscardPolicy.NONE: the parse C4 must tell from
\* ParseDiscardPolicy
ParseDiscardPolicyNone(discard_str) ==
    LET m == EnumLookup(DiscardPolicy, discard_str)
    IN  IF m = ValueError THEN "DiscardPolicy.NONE" ELSE m

\* try: DiscardPolicy(discard_str)  except ValueError: DiscardPolicy.AUTO
ParseDiscardPolicy(discard_str) ==
    LET m == EnumLookup(DiscardPolicy, discard_str)
    IN  IF m = ValueError THEN "DiscardPolicy.AUTO" ELSE m

\* config.swapfile = SwapFileConfig(...) from a non-empty "swapfile" sub-dictionary
ParseSwapfile(sf) ==
    [ enabled                   |-> Get(sf, "enabled", TRUE),
      path                      |-> Get(sf, "path", "/swapfile"),
      chunk_size                |-> Get(sf, "chunk_size", CHUNK_SIZE_DEFAULT),
      max_chunk_size            |-> Get(sf, "max_chunk_size", MAX_CHUNK_SIZE_DEFAULT),
      max_count                 |-> Get(sf, "max_count", SWAPFILE_MAX_COUNT_DEFAULT),
      min_count                 |-> Get(sf, "min_count", SWAPFILE_MIN_COUNT),
      scaling_step              |-> Get(sf, "scaling_step",
                                        SWAPFILE_SCALING_STEP_DEFAULT),
      shrink_threshold          |-> Get(sf, "shrink_threshold",
                                        SWAPFILE_SHRINK_THRESHOLD_DEFAULT),
      safe_headroom             |-> Get(sf, "safe_headroom",
                                        SWAPFILE_SAFE_HEADROOM_DEFAULT),
      use_partitions            |-> Get(sf, "use_partitions", TRUE),
      partition_priority        |-> Get(sf, "partition_priority",
                                        SWAPFILE_PARTITION_PRIORITY_DEFAULT),
      partition_threshold       |-> Get(sf, "partition_threshold",
                                        SWAPFILE_PARTITION_THRESHOLD_DEFAULT),
      min_count_with_partitions |-> Get(sf, "min_count_with_partitions", 0),
      discard_policy            |-> ParseDiscardPolicy(
                                        Get(sf, "discard_policy", "auto")),
      direct_io                 |-> Get(sf, "direct_io", TRUE),
      priority                  |-> Get(sf, "priority", -1) ]

FromDict(d) ==
    LET mode  == IF "mode" \in DOMAIN d
                 THEN EnumLookup(SwapMode, d["mode"]) ELSE SwapConfig.mode
        ttl   == IF "mglru_min_ttl" \in DOMAIN d
                 THEN EnumLookup(MglruTtl, d["mglru_min_ttl"])
                 ELSE SwapConfig.mglru_min_ttl
        zswap == IF "zswap" \in DOMAIN d
                 THEN ParseZswap(d["zswap"]) ELSE SwapConfig.zswap
        zram  == IF "zram" \in DOMAIN d
                 THEN ParseZram(d["zram"]) ELSE SwapConfig.zram
        sf    == Get(d, "swapfile", EmptyDict)
        swapfile == IF DOMAIN sf # {}
                    THEN ParseSwapfile(sf) ELSE SwapConfig.swapfile
    IN  IF \/ mode = ValueError
           \/ ttl = ValueError
           \/ zswap.compressor = ValueError
           \/ zram.alg = ValueError
        THEN Raised
        ELSE Parsed([ mode          |-> mode,
                      zswap         |-> zswap,
                      zram          |-> zram,
                      swapfile      |-> swapfile,
                      mglru_min_ttl |-> ttl ])

-----------------------------------------------------------------------------
(* Inputs of the serialise / parse specification *)

\* a valid SwapConfig that differs from SwapConfig() in every field
AltConfig ==
    [ mode          |-> "SwapMode.ZRAM_SWAPFILE",
      zswap         |-> [ compressor       |-> "Compressor.LZ4",
                          max_pool_percent |-> ZSWAP_MAX_POOL_MAX,
                          zpool            |-> "zbud",
                          shrinker_enabled |-> FALSE,
                          accept_threshold |-> ZSWAP_ACCEPT_THRESHOLD_MIN ],
      zram          |-> [ size_percent        |-> ZRAM_SIZE_MIN,
                          alg                 |-> "Compressor.ZSTD",
                          mem_limit_percent   |-> ZRAM_MEM_LIMIT_MAX,
                          priority            |-> ZRAM_PRIORITY_MIN,
                          writeback_enabled   |-> TRUE,
                          writeback_size      |-> "4G",
                          writeback_max_size  |-> "32G",
                          writeback_threshold |-> ZRAM_WRITEBACK_THRESHOLD_MAX ],
      swapfile      |-> [ enabled                   |-> FALSE,
                          path                      |-> "/var/swap",
                          chunk_size                |-> "8G",
                          max_chunk_size            |-> "128G",
                          max_count                 |-> SWAPFILE_MAX_COUNT_MIN,
                          min_count                 |-> 2,
                          scaling_step              |-> SWAPFILE_SCALING_STEP_MAX,
                          shrink_threshold          |-> SWAPFILE_SHRINK_THRESHOLD_MAX,
                          safe_headroom             |-> SWAPFILE_SAFE_HEADROOM_MIN,
                          use_partitions            |-> FALSE,
                          partition_priority        |-> 50,
                          partition_threshold       |-> SWAPFILE_PARTITION_THRESHOLD_MIN,
                          min_count_with_partitions |-> 1,
                          discard_policy            |-> "DiscardPolicy.ONCE",
                          direct_io                 |-> FALSE,
                          priority                  |-> 10 ],
      mglru_min_ttl |-> "MglruTtl.DISABLED" ]

\* SwapConfig() with one enum or option field set to each of its members
EnumVariants ==
    {[SwapConfig EXCEPT !.mode = m] : m \in Members(SwapMode)}
    \cup {[SwapConfig EXCEPT !.mglru_min_ttl = m] : m \in Members(MglruTtl)}
    \cup {[SwapConfig EXCEPT !.zswap.compressor = m] : m \in Members(Compressor)}
    \cup {[SwapConfig EXCEPT !.zram.alg = m] : m \in Members(Compressor)}
    \cup {[SwapConfig EXCEPT !.swapfile.discard_policy = m] :
             m \in Members(DiscardPolicy)}
    \cup {[SwapConfig EXCEPT !.swapfile.chunk_size = o] : o \in CHUNK_SIZE_OPTIONS}
    \cup {[SwapConfig EXCEPT !.swapfile.max_chunk_size = o] :
             o \in MAX_CHUNK_SIZE_OPTIONS}
    \cup {[SwapConfig EXCEPT !.zram.writeback_size = o] :
             o \in ZRAM_WRITEBACK_SIZE_OPTIONS}
    \cup {[SwapConfig EXCEPT !.zram.writeback_max_size = o] :
             o \in ZRAM_WRITEBACK_MAX_SIZE_OPTIONS}

\* the configurations serialised
ValidConfigs == {SwapConfig, AltConfig} \cup EnumVariants

\* numeric tunables with a [min, max] limit: <<section, key, min, max>>
Limits ==
    { <<"zswap", "max_pool_percent", ZSWAP_MAX_POOL_MIN, ZSWAP_MAX_POOL_MAX>>,
      <<"zswap", "accept_threshold", ZSWAP_ACCEPT_THRESHOLD_MIN,
        ZSWAP_ACCEPT_THRESHOLD_MAX>>,
      <<"zram", "size_percent", ZRAM_SIZE_MIN, ZRAM_SIZE_MAX>>,
      <<"zram", "mem_limit_percent", ZRAM_MEM_LIMIT_MIN, ZRAM_MEM_LIMIT_MAX>>,
      <<"zram", "priority", ZRAM_PRIORITY_MIN, ZRAM_PRIORITY_MAX>>,
      <<"zram", "writeback_threshold", ZRAM_WRITEBACK_THRESHOLD_MIN,
        ZRAM_WRITEBACK_THRESHOLD_MAX>>,
      <<"swapfile", "max_count", SWAPFILE_MAX_COUNT_MIN, SWAPFILE_MAX_COUNT_MAX>>,
      <<"swapfile", "scaling_step", SWAPFILE_SCALING_STEP_MIN,
        SWAPFILE_SCALING_STEP_MAX>>,
      <<"swapfile", "shrink_threshold", SWAPFILE_SHRINK_THRESHOLD_MIN,
        SWAPFILE_SHRINK_THRESHOLD_MAX>>,
      <<"swapfile", "safe_headroom", SWAPFILE_SAFE_HEADROOM_MIN,
        SWAPFILE_SAFE_HEADROOM_MAX>>,
      <<"swapfile", "partition_threshold", SWAPFILE_PARTITION_THRESHOLD_MIN,
        SWAPFILE_PARTITION_THRESHOLD_MAX>> }

\* enum-valued keys: <<section ("top" for the top level), key, enum>>
EnumKeys ==
    { <<"top", "mode", SwapMode>>,
      <<"top", "mglru_min_ttl", MglruTtl>>,
      <<"zswap", "compressor", Compressor>>,
      <<"zram", "alg", Compressor>>,
      <<"swapfile", "discard_policy", DiscardPolicy>> }

\* a string that is no member's value in any enum
Unrecognized == "bogus"

\* a key no dataclass has
UnknownKey == "unknown_key"

-----------------------------------------------------------------------------
(* Actions of the serialise / parse specification *)

\* data = x.to_dict()
Serialize ==
    /\ pc = "config"
    /\ data' = ToDict(cfg)
    /\ pc' = "dict"
    /\ UNCHANGED <<cfg, edits, result, notParse>>

\* a top-level key is missing from the dictionary
DropTopKey(k) ==
    /\ pc = "dict" /\ edits < MaxEdits
    /\ k \in DOMAIN data
    /\ data' = Without(data, k)
    /\ edits' = edits + 1
    /\ UNCHANGED <<pc, cfg, result, notParse>>

\* a key is missing from a sub-dictionary
DropSubKey(s, k) ==
    /\ pc = "dict" /\ edits < MaxEdits
    /\ s \in DOMAIN data /\ k \in DOMAIN data[s]
    /\ data' = [data EXCEPT ![s] = Without(@, k)]
    /\ edits' = edits + 1
    /\ UNCHANGED <<pc, cfg, result, notParse>>

\* a sub-dictionary is present but empty
ClearSection(s) ==
    /\ pc = "dict" /\ edits < MaxEdits
    /\ s \in DOMAIN data /\ DOMAIN data[s] # {}
    /\ data' = [data EXCEPT ![s] = EmptyDict]
    /\ edits' = edits + 1
    /\ UNCHANGED <<pc, cfg, result, notParse>>

\* the dictionary carries a key the model does not know, at the top level
AddUnknownTopKey ==
    /\ pc = "dict" /\ edits < MaxEdits
    /\ UnknownKey \notin DOMAIN data
    /\ data' = With(data, UnknownKey, "x")
    /\ edits' = edits + 1
    /\ UNCHANGED <<pc, cfg, result, notParse>>

\* ... or inside a sub-dictionary
AddUnknownSubKey(s) ==
    /\ pc = "dict" /\ edits < MaxEdits
    /\ s \in DOMAIN data /\ UnknownKey \notin DOMAIN data[s]
    /\ data' = [data EXCEPT ![s] = With(@, UnknownKey, "x")]
    /\ edits' = edits + 1
    /\ UNCHANGED <<pc, cfg, result, notParse>>

\* an enum-valued key holds a string that is no member's value
SetUnrecognized(s, k) ==
    /\ pc = "dict" /\ edits < MaxEdits
    /\ IF s = "top"
       THEN /\ Get(data, k, "") # Unrecognized
            /\ data' = With(data, k, Unrecognized)
       ELSE /\ s \in DOMAIN data
            /\ Get(data[s], k, "") # Unrecognized
            /\ data' = [data EXCEPT ![s] = With(@, k, Unrecognized)]
    /\ edits' = edits + 1
    /\ UNCHANGED <<pc, cfg, result, notParse>>

\* a numeric tunable holds a value just outside its [min, max] limit
SetOutOfRange(s, k, v) ==
    /\ pc = "dict" /\ edits < MaxEdits
    /\ s \in DOMAIN data
    /\ Get(data[s], k, 0) # v
    /\ data' = [data EXCEPT ![s] = With(@, k, v)]
    /\ edits' = edits + 1
    /\ UNCHANGED <<pc, cfg, result, notParse>>

\* result = SwapConfig.from_dict(data)
Parse ==
    /\ pc = "dict"
    /\ result' = FromDict(data)
    /\ pc' = "parsed"
    /\ UNCHANGED <<cfg, data, edits, notParse>>

NextParse ==
    \/ Serialize
    \/ \E k \in DOMAIN SwapConfig : DropTopKey(k)
    \/ \E s \in Sections : \E k \in DOMAIN SwapConfig[s] : DropSubKey(s, k)
    \/ \E s \in Sections : ClearSection(s)
    \/ AddUnknownTopKey
    \/ \E s \in Sections : AddUnknownSubKey(s)
    \/ \E e \in EnumKeys : SetUnrecognized(e[1], e[2])
    \/ \E l \in Limits : \E v \in {l[3] - 1, l[4] + 1} : SetOutOfRange(l[1], l[2], v)
    \/ Parse

StartParse ==
    /\ pc = "config"
    /\ cfg \in ValidConfigs
    /\ data = EmptyDict
    /\ edits = 0
    /\ result = NoResult

\* the parse variables while another specification runs
IdleParse ==
    /\ pc = "idle"
    /\ cfg = SwapConfig
    /\ data = EmptyDict
    /\ edits = 0
    /\ result = NoResult

-----------------------------------------------------------------------------
(* Reading the input dictionary and the parsed configuration field by field *)

\* every field of SwapConfig: <<section ("top" for mode and mglru_min_ttl), key>>
FieldKeys ==
    { <<"top", "mode">>, <<"top", "mglru_min_ttl">> }
    \cup UNION { { <<s, k>> : k \in DOMAIN SwapConfig[s] } : s \in Sections }

Present(f) ==
    IF f[1] = "top"
    THEN f[2] \in DOMAIN data
    ELSE f[1] \in DOMAIN data /\ f[2] \in DOMAIN data[f[1]]

Given(f) == IF f[1] = "top" THEN data[f[2]] ELSE data[f[1]][f[2]]

Got(f) ==
    IF f[1] = "top" THEN result.config[f[2]] ELSE result.config[f[1]][f[2]]

Documented(f) == IF f[1] = "top" THEN SwapConfig[f[2]] ELSE SwapConfig[f[1]][f[2]]

IsEnumField(f) == \E e \in EnumKeys : e[1] = f[1] /\ e[2] = f[2]

EnumOf(f) == (CHOOSE e \in EnumKeys : e[1] = f[1] /\ e[2] = f[2])[3]

\* the enum-valued fields whose input value is no member's value
MalformedFields ==
    { f \in FieldKeys :
        /\ IsEnumField(f)
        /\ Present(f)
        /\ Given(f) \notin { p[2] : p \in EnumOf(f) } }

\* the parsed field is the input's value (for an enum: the member carrying it)
\* when the key is present, and the documented default when it is absent
AsGiven(f) ==
    IF Present(f)
    THEN IF IsEnumField(f)
         THEN /\ Got(f) \in Members(EnumOf(f))
              /\ EnumValue(EnumOf(f), Got(f)) = Given(f)
         ELSE Got(f) = Given(f)
    ELSE Got(f) = Documented(f)

-----------------------------------------------------------------------------
(* Claims about to_dict / from_dict, checked under Spec *)

\* C1: for every valid SwapConfig x, from_dict(x.to_dict()) does not raise and
\* equals x on mode, zswap, zram, swapfile and mglru_min_ttl; in particular
\* SwapConfig() round-trips unchanged.
C1_RoundTrip ==
    (pc = "parsed" /\ edits = 0) =>
        /\ ~result.raised
        /\ \A k \in {"mode", "zswap", "zram", "swapfile", "mglru_min_ttl"} :
               result.config[k] = cfg[k]
        /\ (cfg = SwapConfig => result.config = SwapConfig)

\* a configuration with no default-valued field has been serialised and parsed
C1_Witness ==
    /\ pc = "parsed" /\ edits = 0
    /\ cfg = AltConfig
    /\ data = ToDict(AltConfig)

\* C2: on a dictionary whose present values are valid, with keys missing or
\* unknown, from_dict does not raise; every absent key yields the documented
\* default and every present key is taken as given (unknown keys are ignored:
\* the result has the fields of SwapConfig and no other).
C2_MissingUnknownKeys ==
    (pc = "parsed" /\ MalformedFields = {}) =>
        /\ ~result.raised
        /\ \A f \in FieldKeys : AsGiven(f)
        /\ DOMAIN result.config = DOMAIN SwapConfig
        /\ \A s \in Sections : DOMAIN result.config[s] = DOMAIN SwapConfig[s]

\* a key is missing inside a sub-dictionary whose other keys are non-default
C2_Witness ==
    /\ pc = "parsed" /\ cfg = AltConfig
    /\ "swapfile" \in DOMAIN data
    /\ "chunk_size" \notin DOMAIN data["swapfile"]
    /\ result.config.swapfile.chunk_size = CHUNK_SIZE_DEFAULT
    /\ result.config.swapfile.path = "/var/swap"

\* C3 (as claimed): when exactly one field holds a malformed value, parsing
\* does not fail, that field gets its documented default and every other
\* field holds the value given in the input.
C3_Isolation ==
    (pc = "parsed" /\ Cardinality(MalformedFields) = 1) =>
        /\ ~result.raised
        /\ \A f \in MalformedFields : Got(f) = Documented(f)
        /\ \A f \in FieldKeys \ MalformedFields : AsGiven(f)

\* C4: when swapfile.discard_policy is an unrecognized string (the other
\* enum-valued keys holding recognized values), from_dict does not raise,
\* swapfile.discard_policy is DiscardPolicy.AUTO and every other swapfile
\* field, like every other field, takes the value present in the input.
C4_DiscardPolicyFallback ==
    (pc = "parsed" /\ MalformedFields = { <<"swapfile", "discard_policy">> }) =>
        /\ ~result.raised
        /\ result.config.swapfile.discard_policy = "DiscardPolicy.AUTO"
        /\ \A f \in FieldKeys \ { <<"swapfile", "discard_policy">> } : AsGiven(f)

\* an unrecognized discard_policy replaced a non-AUTO one, the other swapfile
\* fields being non-default
C4_Witness ==
    /\ pc = "parsed" /\ cfg = AltConfig
    /\ MalformedFields = { <<"swapfile", "discard_policy">> }
    /\ data["swapfile"]["discard_policy"] = Unrecognized
    /\ result.config.swapfile.path = "/var/swap"

\* C5 (as claimed): loading a numeric tunable outside its [min, max] does not
\* fail and every numeric field of the loaded SwapConfig is within its limits.
C5_LoadedWithinLimits ==
    (pc = "parsed" /\ MalformedFields = {}) =>
        /\ ~result.raised
        /\ \A l \in Limits :
               /\ Got(<<l[1], l[2]>>) >= l[3]
               /\ Got(<<l[1], l[2]>>) <= l[4]

-----------------------------------------------------------------------------
(* config.py: SwapFileInfo and SwapPartitionInfo *)

\* "usage_percent < t", where usage_percent is 0.0 for size_bytes == 0 and
\* (used_bytes / size_bytes) * 100.0 otherwise.  The comparison is made
\* exactly; the float rounds only for byte counts beyond 2^53.
UsagePercentBelow(f, t) ==
    IF f.size_bytes = 0
    THEN 0 < t
    ELSE f.used_bytes * 100 < t * f.size_bytes

\* "usage_percent == t", in the same way
UsagePercentIs(f, t) ==
    IF f.size_bytes = 0
    THEN t = 0
    ELSE f.used_bytes * 100 = t * f.size_bytes

\* SwapFileInfo.is_removal_candidate
IsRemovalCandidate(f) == UsagePercentBelow(f, SWAPFILE_SHRINK_THRESHOLD_DEFAULT)

StorageType == {"nvme", "ssd", "hdd", "emmc", "sd", "unknown"}

\* the table with the priorities laid over the members in declaration
\* order: the table C7 must tell from STORAGE_SWAP_PRIORITY
PriorityByDeclarationOrder ==
    [ nvme |-> 100, ssd |-> 75, hdd |-> 50, emmc |-> 25, sd |-> 10, unknown |-> 0 ]

STORAGE_SWAP_PRIORITY ==
    [ nvme |-> 100, ssd |-> 75, emmc |-> 50, sd |-> 25, hdd |-> 10, unknown |-> 0 ]

-----------------------------------------------------------------------------
(* Swap partitions: SpecPartitions *)

\* size / used pairs a partition is reported with
PartitionReadings == { <<0, 0>>, <<100, 0>>, <<100, 90>>, <<200, 190>> }

\* a status snapshot lists one more swap partition; its priority is the one
\* its storage type maps to
ReportPartition(t, size, used) ==
    /\ Len(parts) < MaxParts
    /\ parts' = Append(parts, [ storage_type |-> t,
                                size_bytes   |-> size,
                                used_bytes   |-> used,
                                priority     |-> STORAGE_SWAP_PRIORITY[t] ])
    /\ UNCHANGED <<sfc, files, plan, planned, targets, notFleet>>

\* the snapshot is dropped and the next poll starts from an empty list
ClearPartitions ==
    /\ parts # <<>>
    /\ parts' = <<>>
    /\ UNCHANGED <<sfc, files, plan, planned, targets, notFleet>>

NextPartitions ==
    \/ \E t \in StorageType : \E r \in PartitionReadings :
           ReportPartition(t, r[1], r[2])
    \/ ClearPartitions

\* C7 (as claimed): every StorageType member has a fixed priority, and
\* nvme, ssd, hdd, emmc, sd, unknown have 100, 75, 50, 25, 10, 0, so a reported
\* partition carries the priority this order gives its storage type.
C7_PrioritiesInDeclarationOrder ==
    /\ DOMAIN STORAGE_SWAP_PRIORITY = StorageType
    /\ \A i \in 1 .. Len(parts) :
           parts[i].priority =
               ( CASE parts[i].storage_type = "nvme"    -> 100
                   [] parts[i].storage_type = "ssd"     -> 75
                   [] parts[i].storage_type = "hdd"     -> 50
                   [] parts[i].storage_type = "emmc"    -> 25
                   [] parts[i].storage_type = "sd"      -> 10
                   [] parts[i].storage_type = "unknown" -> 0 )

\* C7 (amended): every StorageType member has a fixed priority: nvme 100,
\* ssd 75, emmc 50, sd 25, hdd 10, unknown 0; a reported partition carries
\* the priority of its storage type.
C7_StoragePriorities ==
    /\ DOMAIN STORAGE_SWAP_PRIORITY = StorageType
    /\ STORAGE_SWAP_PRIORITY["nvme"] = 100
    /\ STORAGE_SWAP_PRIORITY["ssd"] = 75
    /\ STORAGE_SWAP_PRIORITY["emmc"] = 50
    /\ STORAGE_SWAP_PRIORITY["sd"] = 25
    /\ STORAGE_SWAP_PRIORITY["hdd"] = 10
    /\ STORAGE_SWAP_PRIORITY["unknown"] = 0
    /\ \A i \in 1 .. Len(parts) :
           parts[i].priority =
               ( CASE parts[i].storage_type = "nvme"    -> 100
                   [] parts[i].storage_type = "ssd"     -> 75
                   [] parts[i].storage_type = "emmc"    -> 50
                   [] parts[i].storage_type = "sd"      -> 25
                   [] parts[i].storage_type = "hdd"     -> 10
                   [] parts[i].storage_type = "unknown" -> 0 )

\* an hdd partition and an emmc partition are reported, the hdd one ranking
\* below the emmc one
C7_Witness ==
    /\ Len(parts) = 2
    /\ parts[1].storage_type = "hdd"
    /\ parts[2].storage_type = "emmc"
    /\ parts[1].priority < parts[2].priority

-----------------------------------------------------------------------------
(* Progressive sizing of swap files: SpecSizing *)

Min(a, b) == IF a <= b THEN a ELSE b

\* a size option in MiB: "256M" -> 256, "1G" -> 1024
SizeMiB(str) ==
    CASE str = "256M" -> 256
      [] str = "512M" -> 512
      [] str = "1G"   -> 1024
      [] str = "2G"   -> 2 * 1024
      [] str = "4G"   -> 4 * 1024
      [] str = "8G"   -> 8 * 1024
      [] str = "16G"  -> 16 * 1024
      [] str = "32G"  -> 32 * 1024
      [] str = "64G"  -> 64 * 1024
      [] str = "128G" -> 128 * 1024

\* from this exponent on, chunk_size * 2^e is at least the largest
\* max_chunk_size for every chunk_size option (256M * 2^9 = 128G)
SaturatingExponent == 9

\* the sizing with the exponent taken from i instead of i - 1, doubling one
\* file early: the sizing C8 must tell from FileSize
FileSizeOffByOne(i, c) ==
    LET e == i \div c.scaling_step
    IN  IF e >= SaturatingExponent
        THEN SizeMiB(c.max_chunk_size)
        ELSE Min(SizeMiB(c.chunk_size) * 2^e, SizeMiB(c.max_chunk_size))

\* size of swap file i (1-indexed):
\* min(chunk_size * 2^floor((i-1) / scaling_step), max_chunk_size)
FileSize(i, c) ==
    LET e == (i - 1) \div c.scaling_step
    IN  IF e >= SaturatingExponent
        THEN SizeMiB(c.max_chunk_size)
        ELSE Min(SizeMiB(c.chunk_size) * 2^e, SizeMiB(c.max_chunk_size))

\* the next swap file is created with the size the sizing rule gives it
CreateFile ==
    /\ Len(targets) < sfc.max_count
    /\ targets' = Append(targets, FileSize(Len(targets) + 1, sfc))
    /\ UNCHANGED <<sfc, files, parts, plan, planned, notFleet>>

NextSizing == CreateFile

\* file counts the sizing runs are bounded by
SizingMaxCounts == {SWAPFILE_MAX_COUNT_MIN, 12, SWAPFILE_MAX_COUNT_MAX}

StartSizing ==
    /\ sfc \in { [SwapFileConfig EXCEPT !.chunk_size = c, !.max_chunk_size = m,
                                        !.scaling_step = st, !.max_count = n] :
                   c \in CHUNK_SIZE_OPTIONS, m \in MAX_CHUNK_SIZE_OPTIONS,
                   st \in SWAPFILE_SCALING_STEP_MIN .. SWAPFILE_SCALING_STEP_MAX,
                   n \in SizingMaxCounts }
    /\ files = <<>> /\ parts = <<>> /\ plan = {} /\ planned = FALSE
    /\ targets = <<>>

\* C8: the first scaling_step files have size min(chunk_size, max_chunk_size)
\* and file i beyond them has min(2 * size of file i - scaling_step,
\* max_chunk_size), which is min(chunk_size * 2^floor((i-1)/scaling_step),
\* max_chunk_size); the sizes never decrease and never exceed max_chunk_size;
\* with chunk_size 512M and scaling_step 4, files 1-4 are 512M, files 5-8 are
\* 1G and files 9-12 are 2G.
C8_ProgressiveSizing ==
    LET base == SizeMiB(sfc.chunk_size)
        cap  == SizeMiB(sfc.max_chunk_size)
        st   == sfc.scaling_step
    IN  \A i \in 1 .. Len(targets) :
            /\ targets[i] <= cap
            /\ (i <= st) => targets[i] = Min(base, cap)
            /\ (i > st) => targets[i] = Min(2 * targets[i - st], cap)
            /\ (i > 1) => targets[i - 1] <= targets[i]
            /\ (sfc.chunk_size = "512M" /\ st = 4 /\ i <= 12) =>
                   targets[i] = ( CASE i \in 1 .. 4  -> 512
                                    [] i \in 5 .. 8  -> 1024
                                    [] i \in 9 .. 12 -> 2 * 1024 )

\* twelve files created from 512M with scaling_step 4: the fourth is 512M, the
\* fifth 1G and the twelfth 2G
C8_Witness ==
    /\ sfc.chunk_size = "512M" /\ sfc.scaling_step = 4
    /\ Len(targets) = 12
    /\ targets[4] = 512 /\ targets[5] = 1024 /\ targets[12] = 2 * 1024

-----------------------------------------------------------------------------
(* Swap-file fleet and removal planning: SpecFleet *)

\* size / used pairs a swap file is reported with
FileReadings ==
    { <<0, 0>>, <<100, 0>>, <<100, 29>>, <<100, 30>>, <<100, 39>>, <<100, 40>>,
      <<100, 100>>, <<200, 0>>, <<200, 60>>, <<200, 200>> }

\* configured thresholds the fleet is planned under
ShrinkThresholds == {SWAPFILE_SHRINK_THRESHOLD_MIN, SWAPFILE_SHRINK_THRESHOLD_DEFAULT,
                     40, SWAPFILE_SHRINK_THRESHOLD_MAX}
SafeHeadrooms == {SWAPFILE_SAFE_HEADROOM_MIN, SWAPFILE_SAFE_HEADROOM_DEFAULT,
                  SWAPFILE_SAFE_HEADROOM_MAX}

RECURSIVE SumField(_, _, _)
\* sum of field k over the files of fs whose index is in S
SumField(fs, S, k) ==
    IF S = {} THEN 0
    ELSE LET i == CHOOSE x \in S : TRUE
         IN  fs[i][k] + SumField(fs, S \ {i}, k)

\* after removing the files R (their data moving to the files kept), at
\* least safe_headroom percent of the remaining capacity is free
HeadroomKept(fs, R, c) ==
    LET cap  == SumField(fs, (1 .. Len(fs)) \ R, "size_bytes")
        used == SumField(fs, 1 .. Len(fs), "used_bytes")
    IN  /\ cap > 0
        /\ (cap - used) * 100 >= c.safe_headroom * cap

RECURSIVE PlanFrom(_, _, _, _)
\* files are considered from the highest index down; a removal candidate
\* joins the removals R when min_count files stay and the headroom is kept
PlanFrom(i, R, fs, c) ==
    IF i = 0 THEN R
    ELSE LET ok == /\ UsagePercentBelow(fs[i], c.shrink_threshold)
                   /\ Len(fs) - Cardinality(R) - 1 >= c.min_count
                   /\ HeadroomKept(fs, R \cup {i}, c)
         IN  PlanFrom(i - 1, IF ok THEN R \cup {i} ELSE R, fs, c)

\* a planner that tests every removal on its own, against the whole fleet:
\* the planner C9 must tell from PlanRemovals
PlanRemovalsOneByOne(fs, c) ==
    { i \in 1 .. Len(fs) :
        /\ UsagePercentBelow(fs[i], c.shrink_threshold)
        /\ Len(fs) - 1 >= c.min_count
        /\ HeadroomKept(fs, {i}, c) }

\* the removals the planner proposes for fleet fs under configuration c
PlanRemovals(fs, c) == PlanFrom(Len(fs), {}, fs, c)

\* a status snapshot lists one more swap file
ReportFile(size, used) ==
    /\ Len(files) < MaxFiles
    /\ files' = Append(files, [size_bytes |-> size, used_bytes |-> used])
    /\ plan' = {}
    /\ planned' = FALSE
    /\ UNCHANGED <<sfc, parts, targets, notFleet>>

\* a planning pass over the current fleet
PlanPass ==
    /\ ~planned
    /\ plan' = PlanRemovals(files, sfc)
    /\ planned' = TRUE
    /\ UNCHANGED <<sfc, files, parts, targets, notFleet>>

NextFleet ==
    \/ \E r \in FileReadings : ReportFile(r[1], r[2])
    \/ PlanPass

StartFleet ==
    /\ sfc \in { [SwapFileConfig EXCEPT !.shrink_threshold = t, !.safe_headroom = h] :
                   t \in ShrinkThresholds, h \in SafeHeadrooms }
    /\ files = <<>> /\ parts = <<>> /\ plan = {} /\ planned = FALSE
    /\ targets = <<>>

StartPartitions ==
    /\ sfc = SwapFileConfig
    /\ files = <<>> /\ parts = <<>> /\ plan = {} /\ planned = FALSE
    /\ targets = <<>>

\* the fleet variables while another specification runs
IdleFleet == StartPartitions

\* C6 (as claimed): for every reported swap file and the configured
\* shrink_threshold, is_removal_candidate is true exactly when usage_percent
\* is strictly below that shrink_threshold.
C6_CandidateBelowConfiguredThreshold ==
    \A i \in 1 .. Len(files) :
        IsRemovalCandidate(files[i])
            <=> UsagePercentBelow(files[i], sfc.shrink_threshold)

\* C9: a plan with removals leaves, once the removed files are gone and their
\* pages sit in the files kept, capacity of which at least safe_headroom
\* percent is free; the plan holds only files of the fleet.
C9_PlanKeepsHeadroom ==
    planned =>
        LET all  == 1 .. Len(files)
            cap  == SumField(files, all \ plan, "size_bytes")
            used == SumField(files, all, "used_bytes")
        IN  /\ plan \subseteq all
            /\ plan # {} =>
                   /\ cap > 0
                   /\ (cap - used) * 100 >= sfc.safe_headroom * cap

\* a plan removes one file and leaves out another file that is below the
\* shrink threshold, because removing both would break the headroom
C9_Witness ==
    /\ planned /\ plan # {}
    /\ \E i \in (1 .. Len(files)) \ plan :
           /\ UsagePercentBelow(files[i], sfc.shrink_threshold)
           /\ Len(files) - Cardinality(plan) - 1 >= sfc.min_count
           /\ LET cap  == SumField(files, (1 .. Len(files)) \ (plan \cup {i}),
                                   "size_bytes")
                  used == SumField(files, 1 .. Len(files), "used_bytes")
              IN  cap > 0 /\ (cap - used) * 100 < sfc.safe_headroom * cap

-----------------------------------------------------------------------------
(* ui/unified_view.py: compression ratios of the live statistics: SpecStats *)

\* texts of a status row: the sentinel "-", or a ratio formatted "{:.2f}x",
\* kept as its hundredths
Sentinel == [kind |-> "-", hundredths |-> 0]
RatioText(h) == [kind |-> "ratio", hundredths |-> h]
\* what a / b raises when b is 0
ZeroDivisionError == [kind |-> "ZeroDivisionError", hundredths |-> 0]

\* f"{a / b:.2f}x" for a >= 0: the quotient rounded to hundredths
FormatRatio(a, b) ==
    IF b = 0
    THEN ZeroDivisionError
    ELSE RatioText((200 * a + b) \div (2 * b))

\* the zswap ratio guarded on stored_data_bytes alone: the computation C10
\* must tell from ZswapRatio
ZswapRatioUnguardedPool(zs) ==
    IF zs.stored_data_bytes > 0
    THEN FormatRatio(zs.stored_data_bytes, zs.pool_size_bytes)
    ELSE Sentinel

\* the zswap ratio row text of _update_live_statistics
ZswapRatio(zs) ==
    IF zs.stored_data_bytes > 0 /\ zs.pool_size_bytes > 0
    THEN FormatRatio(zs.stored_data_bytes, zs.pool_size_bytes)
    ELSE Sentinel

\* a whitespace-separated field of mm_stat: a decimal number, or text that
\* int() rejects with ValueError
Num(n) == [num |-> TRUE, val |-> n]
NotANumber == [num |-> FALSE, val |-> 0]

RECURSIVE ReadFrom(_, _)
\* the loop of _read_zram_compression_ratio from the i-th mm_stat file on
ReadFrom(i, devs) ==
    IF i > Len(devs) THEN Sentinel
    ELSE LET d == devs[i]
         IN  IF ~d.readable
             THEN ReadFrom(i + 1, devs)                     \* OSError: pass
             ELSE IF Len(d.fields) >= 2
                  THEN IF ~d.fields[1].num \/ ~d.fields[2].num
                       THEN ReadFrom(i + 1, devs)           \* ValueError: pass
                       ELSE IF d.fields[2].val > 0
                            THEN FormatRatio(d.fields[1].val, d.fields[2].val)
                            ELSE ReadFrom(i + 1, devs)
                  ELSE ReadFrom(i + 1, devs)

\* UnifiedView._read_zram_compression_ratio
ReadZramCompressionRatio(devs) == ReadFrom(1, devs)

\* the zram ratio row text of _update_live_statistics
ZramRatio(ms, devs) ==
    IF ms.present /\ ms.zram_used > 0
    THEN ReadZramCompressionRatio(devs)
    ELSE Sentinel

\* a status row: visibility and text
Row(v, t) == [visible |-> v, text |-> t]

\* UnifiedView._update_live_statistics, zswap and zram ratio rows.  A raised
\* ZeroDivisionError leaves the handler where it is raised.
UpdateLiveStatistics ==
    /\ statsPc = "polled"
    /\ LET zs == IF status.zswap.enabled THEN ZswapRatio(status.zswap) ELSE zswapRow.text
           zr == IF status.zram.enabled THEN ZramRatio(memStats, zramFiles)
                 ELSE zramRow.text
       IN  IF zs = ZeroDivisionError
           THEN /\ zswapRow' = Row(status.zswap.enabled, zswapRow.text)
                /\ zramRow' = zramRow
                /\ statsPc' = "crashed"
           ELSE IF zr = ZeroDivisionError
           THEN /\ zswapRow' = Row(status.zswap.enabled, zs)
                /\ zramRow' = Row(status.zram.enabled, zramRow.text)
                /\ statsPc' = "crashed"
           ELSE /\ zswapRow' = Row(status.zswap.enabled, zs)
                /\ zramRow' = Row(status.zram.enabled, zr)
                /\ statsPc' = "updated"
    /\ UNCHANGED <<status, memStats, zramFiles, notStats>>

NextStats == UpdateLiveStatistics

\* byte counters of a snapshot
ByteCounts == {0, 100, 250}

\* numbers an mm_stat field holds
StatCounts == {0, 2, 5}

StatFields == {Num(n) : n \in StatCounts} \cup {NotANumber}

\* one mm_stat file: unreadable, empty, a single field, or its first two fields
MmStats ==
    { [readable |-> FALSE, fields |-> <<>>],
      [readable |-> TRUE, fields |-> <<>>],
      [readable |-> TRUE, fields |-> <<Num(5)>>] }
    \cup { [readable |-> TRUE, fields |-> <<a, b>>] : a \in StatFields, b \in StatFields }

RECURSIVE SeqsUpTo(_, _)
\* the sequences over S of length at most n
SeqsUpTo(S, n) ==
    IF n = 0 THEN { <<>> }
    ELSE LET shorter == SeqsUpTo(S, n - 1)
         IN  shorter \cup { Append(q, x) : q \in shorter, x \in S }

StartStats ==
    /\ status \in [ zswap : [ enabled : BOOLEAN,
                              pool_size_bytes : ByteCounts,
                              stored_data_bytes : ByteCounts ],
                    zram  : [ enabled : BOOLEAN ] ]
    /\ memStats \in { [present |-> FALSE, zram_used |-> 0],
                      [present |-> TRUE, zram_used |-> 0],
                      [present |-> TRUE, zram_used |-> 100] }
    /\ zramFiles \in SeqsUpTo(MmStats, MaxZramDevices)
    /\ zswapRow = Row(TRUE, Sentinel)
    /\ zramRow = Row(TRUE, Sentinel)
    /\ statsPc = "polled"

\* the statistics variables while another specification runs
IdleStats ==
    /\ status = [ zswap |-> [ enabled |-> FALSE, pool_size_bytes |-> 0,
                              stored_data_bytes |-> 0 ],
                  zram  |-> [ enabled |-> FALSE ] ]
    /\ memStats = [present |-> FALSE, zram_used |-> 0]
    /\ zramFiles = <<>>
    /\ zswapRow = Row(TRUE, Sentinel)
    /\ zramRow = Row(TRUE, Sentinel)
    /\ statsPc = "idle"

\* the text t shows a / b rounded to hundredths
IsRatio(t, a, b) ==
    /\ t.kind = "ratio"
    /\ 2 * (t.hundredths * b - 100 * a) <= b
    /\ 2 * (100 * a - t.hundredths * b) <= b

\* the mm_stat files whose first two fields are numbers, the second above 0
UsableDevices ==
    { i \in 1 .. Len(zramFiles) :
        /\ zramFiles[i].readable
        /\ Len(zramFiles[i].fields) >= 2
        /\ zramFiles[i].fields[1].num
        /\ zramFiles[i].fields[2].num
        /\ zramFiles[i].fields[2].val > 0 }

\* C10: the statistics update never raises ZeroDivisionError.  The zswap row
\* shows stored_data_bytes / pool_size_bytes when both are above 0 and "-"
\* otherwise; the zram row shows original / compressed of the first mm_stat
\* file that is readable, well-formed and has compressed above 0, and "-"
\* when zram holds nothing or there is no such file.
C10_RatiosNeverDivideByZero ==
    /\ statsPc # "crashed"
    /\ statsPc = "updated" =>
        /\ status.zswap.enabled =>
               IF status.zswap.stored_data_bytes > 0
                  /\ status.zswap.pool_size_bytes > 0
               THEN IsRatio(zswapRow.text, status.zswap.stored_data_bytes,
                            status.zswap.pool_size_bytes)
               ELSE zswapRow.text = Sentinel
        /\ status.zram.enabled =>
               IF memStats.present /\ memStats.zram_used > 0 /\ UsableDevices # {}
               THEN LET i == CHOOSE x \in UsableDevices :
                                 \A y \in UsableDevices : x <= y
                    IN  IsRatio(zramRow.text, zramFiles[i].fields[1].val,
                                zramFiles[i].fields[2].val)
               ELSE zramRow.text = Sentinel

\* zswap stores data in a pool reported as 0 bytes, and zram holds data while
\* its first device reports 0 compressed bytes and its second is malformed:
\* both rows show "-"
C10_Witness ==
    /\ statsPc = "updated"
    /\ status.zswap.enabled
    /\ status.zswap.stored_data_bytes > 0 /\ status.zswap.pool_size_bytes = 0
    /\ zswapRow.text = Sentinel
    /\ status.zram.enabled /\ memStats.present /\ memStats.zram_used > 0
    /\ Len(zramFiles) = 2
    /\ zramFiles[1] = [readable |-> TRUE, fields |-> <<Num(5), Num(0)>>]
    /\ zramFiles[2] = [readable |-> TRUE, fields |-> <<Num(5), NotANumber>>]
    /\ zramRow.text = Sentinel

(* ui/unified_view.py: the edited configuration, its saved baseline and the *)
(* visibility of the settings groups: SpecWindow                             *)

\* list(SwapMode), list(Compressor), list(MglruTtl): members in definition order
SwapModeList ==
    << "SwapMode.AUTO", "SwapMode.ZSWAP_SWAPFILE", "SwapMode.ZRAM_SWAPFILE",
       "SwapMode.ZRAM_ONLY", "SwapMode.DISABLED" >>
CompressorList == << "Compressor.LZ4", "Compressor.ZSTD", "Compressor.LZO" >>
MglruTtlList ==
    << "MglruTtl.AUTO", "MglruTtl.DISABLED", "MglruTtl.MS_100", "MglruTtl.MS_300",
       "MglruTtl.MS_600", "MglruTtl.VERY_HIGH_RAM", "MglruTtl.HIGH_RAM",
       "MglruTtl.MEDIUM_RAM", "MglruTtl.LOW_RAM" >>
\* CHUNK_SIZE_OPTIONS as the list it is
ChunkSizeList == << "256M", "512M", "1G", "2G", "4G", "8G" >>

\* lst[index], 0-based
At(lst, index) == lst[index + 1]

\* recompress_enabled and recompress_algorithm (a member of RecompressAlgorithm,
\* kept as its index) are read and written on _config.zram, but ZramConfig
\* declares neither: they are plain instance attributes, which copy.deepcopy
\* carries along and the dataclass __eq__ leaves out
DefaultExtra == [recompress_enabled |-> FALSE, recompress_algorithm |-> 0]

\* a default-constructed SwapConfig(): its ZramConfig() has neither attribute
MissingExtra == [missing |-> {"recompress_enabled", "recompress_algorithm"}]

\* UnifiedView._configs_differ: self._config != self._original_config, the
\* dataclass comparison of the declared fields
ConfigsDiffer(c, o) == c # o

\* UnifiedView._update_settings_visibility on the visibilities vis
UpdateSettingsVisibility(vis, mode) ==
    IF mode \in {"SwapMode.AUTO", "SwapMode.DISABLED"}
    THEN [vis EXCEPT !.advanced = FALSE]
    ELSE [ advanced  |-> TRUE,
           zswap     |-> (mode \in {"SwapMode.ZSWAP_SWAPFILE"}),
           zram      |-> (mode \in {"SwapMode.ZRAM_SWAPFILE", "SwapMode.ZRAM_ONLY"}),
           swapfile  |-> (mode \in {"SwapMode.ZSWAP_SWAPFILE",
                                    "SwapMode.ZRAM_SWAPFILE"}),
           mglru     |-> (vis.has_mglru /\ mode \in {"SwapMode.ZSWAP_SWAPFILE"}),
           has_mglru |-> vis.has_mglru ]

\* _check_config_changed (not loading) with SwapWindow._on_config_changed as
\* the callback: has_changes is computed, passed on and set on the button
CheckConfigChanged(c, o) ==
    /\ hasChanges' = << ConfigsDiffer(c, o) >>
    /\ applyBtn' = ConfigsDiffer(c, o)

\* an edit callback: nothing while loading; otherwise the new value is
\* stored, vis becomes the visibility and _check_config_changed runs
EditCallback(c, x, vis) ==
    /\ userActions < MaxUserActions
    /\ userActions' = userActions + 1
    /\ IF loading
       THEN UNCHANGED <<viewConfig, viewExtra, visible, hasChanges, applyBtn>>
       ELSE /\ viewConfig' = c
            /\ viewExtra' = x
            /\ visible' = vis
            /\ CheckConfigChanged(c, originalConfig)
    /\ UNCHANGED <<originalConfig, originalExtra, loading, flights, confFile,
                   pollVars, notWindowPoll>>

\* indexes chosen in the combo rows other than the mode row, and values set
\* on a scale that ends at hi
ComboIndexes == {1}
ScaleValues(hi) == {hi}

OnModeChanged(index) ==
    LET c == [viewConfig EXCEPT !.mode = At(SwapModeList, index)]
    IN  EditCallback(c, viewExtra, UpdateSettingsVisibility(visible, c.mode))

OnZswapCompressorChanged(index) ==
    EditCallback([viewConfig EXCEPT !.zswap.compressor = At(CompressorList, index)],
                 viewExtra, visible)

OnZswapPoolChanged(value) ==
    EditCallback([viewConfig EXCEPT !.zswap.max_pool_percent = value],
                 viewExtra, visible)

OnZramSizeChanged(value) ==
    EditCallback([viewConfig EXCEPT !.zram.size_percent = value], viewExtra, visible)

OnZramAlgChanged(index) ==
    EditCallback([viewConfig EXCEPT !.zram.alg = At(CompressorList, index)],
                 viewExtra, visible)

OnZramMemLimitChanged(value) ==
    EditCallback([viewConfig EXCEPT !.zram.mem_limit_percent = value],
                 viewExtra, visible)

OnZramRecompressChanged(active) ==
    EditCallback(viewConfig, [viewExtra EXCEPT !.recompress_enabled = active],
                 visible)

OnZramRecompressAlgChanged(index) ==
    EditCallback(viewConfig, [viewExtra EXCEPT !.recompress_algorithm = index],
                 visible)

OnSwapfileEnabledChanged(active) ==
    EditCallback([viewConfig EXCEPT !.swapfile.enabled = active], viewExtra, visible)

OnSwapfileChunkChanged(index) ==
    EditCallback([viewConfig EXCEPT !.swapfile.chunk_size = At(ChunkSizeList, index)],
                 viewExtra, visible)

OnMglruChanged(index) ==
    EditCallback([viewConfig EXCEPT !.mglru_min_ttl = At(MglruTtlList, index)],
                 viewExtra, visible)

\* UnifiedView.restore_defaults: _config = SwapConfig(), then _load_state:
\* it raises _loading, sets the mode, Zswap and Zram widgets (their callbacks
\* return at the _loading guard) and reads config.zram.recompress_enabled for
\* the recompression switch.  The ZramConfig() of a fresh SwapConfig() has no
\* such attribute: AttributeError leaves restore_defaults there, _loading is
\* still raised, and neither _update_settings_visibility nor
\* _check_config_changed runs.
RestoreDefaults ==
    /\ userActions < MaxUserActions
    /\ userActions' = userActions + 1
    /\ viewConfig' = SwapConfig
    /\ viewExtra' = MissingExtra
    /\ loading' = TRUE
    /\ UNCHANGED <<visible, hasChanges, applyBtn, originalConfig, originalExtra,
                   flights, confFile, pollVars, notWindowPoll>>

\* UnifiedView._apply_status_update of snapshot s, config_service.get().mode
\* being serviceMode: the snapshot is kept, and in AUTO mode the visibility
\* of the settings is refreshed (the statistics rows are SpecStats')
ApplyStatusUpdate(s, serviceMode) ==
    /\ latestStatus' = s
    /\ visible' = IF serviceMode = "SwapMode.AUTO"
                  THEN UpdateSettingsVisibility(visible, viewConfig.mode)
                  ELSE visible

-----------------------------------------------------------------------------
(* window.py: SwapWindow._apply_config, and the helpers of utils.py it      *)
(* starts.  A flight is one call of _apply_config with what its callbacks    *)
(* close over; its worker thread and its idle callbacks are steps of their   *)
(* own.                                                                      *)

Toast(text, arg) == [kind |-> "toast", text |-> text, arg |-> arg]
Dialog(title, body) == [kind |-> "dialog", text |-> title, arg |-> body]

\* ConfigService.generate_config_content: the text rendered from the fields
GenerateConfigContent(c) == c

\* the daemon configuration file: the text it was last written from, whole
\* or cut short
FileOf(content, state) == [content |-> content, state |-> state]

\* what the worker of apply_config_with_pkexec can report, and what the copy
\* did to the file by then: "same" (not touched), "partial" (cp stopped after
\* truncating the target), "new" (cp finished)
WriteOutcomes ==
    { [success |-> TRUE,  message |-> "", file |-> "new"],
      [success |-> FALSE, message |-> "pkexec not found", file |-> "same"],
      [success |-> FALSE, message |-> "stderr", file |-> "same"],      \* not authorised
      [success |-> FALSE, message |-> "stderr", file |-> "partial"],   \* cp fails
      [success |-> FALSE, message |-> "stderr", file |-> "new"],       \* chmod fails
      [success |-> FALSE, message |-> "Operation timed out", file |-> "same"] }

\* what the workers of enable_systemd_swap and stop_systemd_swap can report
ServiceOutcomes ==
    { [success |-> TRUE,  message |-> ""],
      [success |-> FALSE, message |-> "stderr"] }

Flight(pc0, inUse, content, notices, commands) ==
    [ pc          |-> pc0,
      swap_in_use |-> inUse,
      content     |-> content,
      written     |-> FALSE,      \* the success apply_config_with_pkexec reported
      success     |-> FALSE,      \* the arguments of the callback last queued
      message     |-> "",
      notices     |-> notices,
      commands    |-> commands ]

\* UnifiedView.mark_saved, not loading: the baseline becomes a deep copy of
\* the edited configuration and _check_config_changed runs.  While loading,
\* only the copy is made.
MarkSaved ==
    /\ originalConfig' = viewConfig
    /\ originalExtra' = viewExtra
    /\ IF loading
       THEN UNCHANGED hasChanges
       ELSE hasChanges' = << ConfigsDiffer(viewConfig, viewConfig) >>

\* the sensitivity mark_saved leaves on the Apply button that was b
AfterMarkSaved(b) == IF loading THEN b ELSE ConfigsDiffer(viewConfig, viewConfig)

\* an _apply_config without the branch for SwapMode.DISABLED
ApplyConfigWritingAlways(inUse) ==
    /\ userActions < MaxUserActions
    /\ userActions' = userActions + 1
    /\ applyBtn' = FALSE
    /\ flights' = Append(flights,
           Flight("write", inUse, GenerateConfigContent(viewConfig),
                  << Toast("Applying configuration...", "") >>,
                  << "apply_config_with_pkexec" >>))
    /\ UNCHANGED <<viewConfig, viewExtra, originalConfig, originalExtra, loading,
                   visible, hasChanges, confFile, pollVars, notWindowPoll>>

\* SwapWindow._apply_config(self._unified_view.get_config()); inUse is what
\* has_any_swap_in_use() returns
ApplyConfig(inUse) ==
    /\ userActions < MaxUserActions
    /\ userActions' = userActions + 1
    /\ IF viewConfig.mode = "SwapMode.DISABLED"
       THEN IF inUse
            THEN /\ applyBtn' = TRUE
                 /\ flights' = Append(flights,
                        Flight("done", inUse, GenerateConfigContent(viewConfig),
                               << Dialog("Restart Required", "There is data in swap") >>,
                               << >>))
            ELSE /\ applyBtn' = FALSE
                 /\ flights' = Append(flights,
                        Flight("stop", inUse, GenerateConfigContent(viewConfig),
                               << Toast("Stopping swap service...", "") >>,
                               << "stop_systemd_swap" >>))
       ELSE /\ applyBtn' = FALSE
            /\ flights' = Append(flights,
                   Flight("write", inUse, GenerateConfigContent(viewConfig),
                          << Toast("Applying configuration...", "") >>,
                          << "apply_config_with_pkexec" >>))
    /\ UNCHANGED <<viewConfig, viewExtra, originalConfig, originalExtra, loading,
                   visible, hasChanges, confFile, pollVars, notWindowPoll>>

\* SwapWindow._on_apply_clicked: a click on the Apply button, which takes a
\* sensitive button
OnApplyClicked(inUse) == applyBtn /\ ApplyConfig(inUse)

\* SwapApplication._on_apply_config: the application's "apply-config" action,
\* which is always enabled
OnApplyConfigAction(inUse) == ApplyConfig(inUse)

\* apply_config_with_pkexec._run: the worker thread of flight i ends with
\* outcome o and queues on_complete(success, message)
ApplyWorker(i, o) ==
    /\ flights[i].pc = "write"
    /\ confFile' = CASE o.file = "same"    -> confFile
                     [] o.file = "partial" -> FileOf(flights[i].content, "partial")
                     [] o.file = "new"     -> FileOf(flights[i].content, "whole")
    /\ flights' = [flights EXCEPT ![i].pc = "write_cb",
                                  ![i].written = o.success,
                                  ![i].success = o.success,
                                  ![i].message = o.message]
    /\ UNCHANGED <<viewConfig, viewExtra, originalConfig, originalExtra, loading,
                   visible, hasChanges, applyBtn, userActions, pollVars, notWindowPoll>>

\* an on_apply_complete that does not look at success
OnApplyCompleteIgnoringFailure(i) ==
    /\ flights[i].pc = "write_cb"
    /\ MarkSaved
    /\ IF flights[i].swap_in_use
       THEN /\ applyBtn' = TRUE
            /\ flights' = [flights EXCEPT
                   ![i].pc = "done",
                   ![i].notices = Append(@, Dialog("Restart Required",
                                      "Configuration saved successfully"))]
       ELSE /\ applyBtn' = AfterMarkSaved(applyBtn)
            /\ flights' = [flights EXCEPT
                   ![i].pc = "enable",
                   ![i].commands = Append(@, "enable_systemd_swap")]
    /\ UNCHANGED <<viewConfig, viewExtra, loading, visible, confFile, userActions,
                   pollVars, notWindowPoll>>

\* an on_apply_complete that does not look at swap_in_use
OnApplyCompleteAlwaysEnabling(i) ==
    /\ flights[i].pc = "write_cb"
    /\ IF ~flights[i].success
       THEN /\ applyBtn' = TRUE
            /\ flights' = [flights EXCEPT
                   ![i].pc = "done",
                   ![i].notices = Append(@, Toast("Failed: {}", flights[i].message))]
            /\ UNCHANGED <<originalConfig, originalExtra, hasChanges>>
       ELSE /\ MarkSaved
            /\ applyBtn' = AfterMarkSaved(applyBtn)
            /\ flights' = [flights EXCEPT
                   ![i].pc = "enable",
                   ![i].commands = Append(@, "enable_systemd_swap")]
    /\ UNCHANGED <<viewConfig, viewExtra, loading, visible, confFile, userActions,
                   pollVars, notWindowPoll>>

\* on_apply_complete(success, message) of flight i
OnApplyComplete(i) ==
    /\ flights[i].pc = "write_cb"
    /\ IF ~flights[i].success
       THEN /\ applyBtn' = TRUE
            /\ flights' = [flights EXCEPT
                   ![i].pc = "done",
                   ![i].notices = Append(@, Toast("Failed: {}", flights[i].message))]
            /\ UNCHANGED <<originalConfig, originalExtra, hasChanges>>
       ELSE /\ MarkSaved
            /\ IF flights[i].swap_in_use
               THEN /\ applyBtn' = TRUE
                    /\ flights' = [flights EXCEPT
                           ![i].pc = "done",
                           ![i].notices = Append(@, Dialog("Restart Required",
                                              "Configuration saved successfully"))]
               ELSE /\ applyBtn' = AfterMarkSaved(applyBtn)
                    /\ flights' = [flights EXCEPT
                           ![i].pc = "enable",
                           ![i].commands = Append(@, "enable_systemd_swap")]
    /\ UNCHANGED <<viewConfig, viewExtra, loading, visible, confFile, userActions,
                   pollVars, notWindowPoll>>

\* enable_systemd_swap._run: the worker of flight i ends with outcome o
EnableWorker(i, o) ==
    /\ flights[i].pc = "enable"
    /\ flights' = [flights EXCEPT ![i].pc = "enable_cb",
                                  ![i].success = o.success,
                                  ![i].message = o.message]
    /\ UNCHANGED <<viewConfig, viewExtra, originalConfig, originalExtra, loading,
                   visible, hasChanges, applyBtn, confFile, userActions,
                   pollVars, notWindowPoll>>

\* an on_enable_complete that does not look at success2
OnEnableCompleteAlwaysApplied(i) ==
    /\ flights[i].pc = "enable_cb"
    /\ applyBtn' = TRUE
    /\ flights' = [flights EXCEPT
           ![i].pc = "done",
           ![i].notices = Append(@,
               Dialog("Configuration Applied",
                      "Configuration applied and service restarted successfully."))]
    /\ UNCHANGED <<viewConfig, viewExtra, originalConfig, originalExtra, loading,
                   visible, hasChanges, confFile, userActions, pollVars, notWindowPoll>>

\* on_enable_complete(success2, message2) of flight i
OnEnableComplete(i) ==
    /\ flights[i].pc = "enable_cb"
    /\ applyBtn' = TRUE
    /\ flights' = [flights EXCEPT
           ![i].pc = "done",
           ![i].notices = Append(@,
               IF flights[i].success
               THEN Dialog("Configuration Applied",
                           "Configuration applied and service restarted successfully.")
               ELSE Toast("Config saved but restart failed: {}", flights[i].message))]
    /\ UNCHANGED <<viewConfig, viewExtra, originalConfig, originalExtra, loading,
                   visible, hasChanges, confFile, userActions, pollVars, notWindowPoll>>

\* stop_systemd_swap._run: the worker of flight i ends with outcome o
StopWorker(i, o) ==
    /\ flights[i].pc = "stop"
    /\ flights' = [flights EXCEPT ![i].pc = "stop_cb",
                                  ![i].success = o.success,
                                  ![i].message = o.message]
    /\ UNCHANGED <<viewConfig, viewExtra, originalConfig, originalExtra, loading,
                   visible, hasChanges, applyBtn, confFile, userActions,
                   pollVars, notWindowPoll>>

\* an on_stop_complete that marks the configuration saved whatever the outcome
OnStopCompleteAlwaysSaving(i) ==
    /\ flights[i].pc = "stop_cb"
    /\ MarkSaved
    /\ applyBtn' = AfterMarkSaved(TRUE)
    /\ flights' = [flights EXCEPT
           ![i].pc = "done",
           ![i].notices = Append(@, Toast("Swap management disabled", ""))]
    /\ UNCHANGED <<viewConfig, viewExtra, loading, visible, confFile, userActions,
                   pollVars, notWindowPoll>>

\* on_stop_complete(success, message) of flight i: the button is made
\* sensitive, then on success mark_saved runs
OnStopComplete(i) ==
    /\ flights[i].pc = "stop_cb"
    /\ IF flights[i].success
       THEN /\ MarkSaved
            /\ applyBtn' = AfterMarkSaved(TRUE)
            /\ flights' = [flights EXCEPT
                   ![i].pc = "done",
                   ![i].notices = Append(@, Toast("Swap management disabled", ""))]
       ELSE /\ applyBtn' = TRUE
            /\ flights' = [flights EXCEPT
                   ![i].pc = "done",
                   ![i].notices = Append(@, Toast("Failed: {}", flights[i].message))]
            /\ UNCHANGED <<originalConfig, originalExtra, hasChanges>>
    /\ UNCHANGED <<viewConfig, viewExtra, loading, visible, confFile, userActions,
                   pollVars, notWindowPoll>>

\* a status snapshot reaches the view while the window is used
StatusArrives(serviceMode) ==
    /\ ApplyStatusUpdate(1, serviceMode)
    /\ UNCHANGED <<viewConfig, viewExtra, originalConfig, originalExtra, loading,
                   hasChanges, applyBtn, flights, confFile, userActions,
                   statusTimer, workers, idleQueue, polls, notWindowPoll>>

\* the modes config_service.get() is given when a status update is applied
StatusModes == { "SwapMode.AUTO", "SwapMode.ZRAM_ONLY" }

NextWindow ==
    \/ \E index \in 0 .. Len(SwapModeList) - 1 : OnModeChanged(index)
    \/ \E index \in ComboIndexes : OnZswapCompressorChanged(index)
    \/ \E value \in ScaleValues(ZSWAP_MAX_POOL_MAX) :
           OnZswapPoolChanged(value)
    \/ \E value \in ScaleValues(ZRAM_SIZE_MAX) :
           OnZramSizeChanged(value)
    \/ \E index \in ComboIndexes : OnZramAlgChanged(index)
    \/ \E value \in ScaleValues(ZRAM_MEM_LIMIT_MAX) :
           OnZramMemLimitChanged(value)
    \/ \E active \in BOOLEAN : OnZramRecompressChanged(active)
    \/ \E index \in ComboIndexes : OnZramRecompressAlgChanged(index)
    \/ \E active \in BOOLEAN : OnSwapfileEnabledChanged(active)
    \/ \E index \in ComboIndexes : OnSwapfileChunkChanged(index)
    \/ \E index \in ComboIndexes : OnMglruChanged(index)
    \/ RestoreDefaults
    \/ \E inUse \in BOOLEAN : OnApplyClicked(inUse)
    \/ \E i \in 1 .. Len(flights) : \E o \in WriteOutcomes : ApplyWorker(i, o)
    \/ \E i \in 1 .. Len(flights) : OnApplyComplete(i)
    \/ \E i \in 1 .. Len(flights) : \E o \in ServiceOutcomes : EnableWorker(i, o)
    \/ \E i \in 1 .. Len(flights) : OnEnableComplete(i)
    \/ \E i \in 1 .. Len(flights) : \E o \in ServiceOutcomes : StopWorker(i, o)
    \/ \E i \in 1 .. Len(flights) : OnStopComplete(i)
    \/ \E m \in StatusModes : StatusArrives(m)

\* the configurations config_service.get() hands to the view
ServiceConfigs == { SwapConfig }


\* the view and the window once constructed: _setup_ui ends with
\* _update_settings_visibility on groups created visible, the MGLRU group
\* existing only where is_mglru_supported()
StartWindow ==
    /\ viewConfig \in ServiceConfigs
    /\ viewExtra = DefaultExtra
    /\ originalConfig = viewConfig
    /\ originalExtra = viewExtra
    /\ loading = FALSE
    /\ \E mglru \in BOOLEAN :
           visible = UpdateSettingsVisibility(
                         [ advanced |-> TRUE, zswap |-> TRUE, zram |-> TRUE,
                           swapfile |-> TRUE, mglru |-> mglru, has_mglru |-> mglru ],
                         viewConfig.mode)
    /\ hasChanges = << >>
    /\ applyBtn = FALSE
    /\ flights = << >>
    /\ confFile = FileOf(GenerateConfigContent(viewConfig), "whole")
    /\ userActions = 0

IdleWindow ==
    /\ viewConfig = SwapConfig
    /\ viewExtra = DefaultExtra
    /\ originalConfig = SwapConfig
    /\ originalExtra = DefaultExtra
    /\ loading = FALSE
    /\ visible = [ advanced |-> FALSE, zswap |-> TRUE, zram |-> TRUE,
                   swapfile |-> TRUE, mglru |-> FALSE, has_mglru |-> FALSE ]
    /\ hasChanges = << >>
    /\ applyBtn = FALSE
    /\ flights = << >>
    /\ confFile = FileOf(GenerateConfigContent(SwapConfig), "whole")
    /\ userActions = 0

-----------------------------------------------------------------------------
(* Properties of the window flow *)

\* the elements of the sequence q
Range(q) == { q[k] : k \in DOMAIN q }

\* how often x occurs in the sequence q
Occurrences(q, x) == Cardinality({ k \in DOMAIN q : q[k] = x })

\* the notices of flight f that carry the text t
NoticesWith(f, t) == { k \in DOMAIN f.notices : f.notices[k].text = t }

\* flight f went through the write path (its mode was not DISABLED)
IsWriteFlight(f) == f.content.mode # "SwapMode.DISABLED"

\* the write of flight f has been reported to on_apply_complete
WriteReported(f) == IsWriteFlight(f) /\ f.pc \notin {"write", "write_cb"}

\* the reasons apply_config_with_pkexec gives for a failure: the helper's
\* stderr, "pkexec not found", "Operation timed out"
FailureReasons == { o.message : o \in { w \in WriteOutcomes : ~w.success } }

\* what differs between the edited configuration and the baseline, the
\* recompression switch and algorithm included
EditedDiffers == viewConfig # originalConfig \/ viewExtra # originalExtra

\* C11: a failed configuration write is reported exactly once, with the
\* helper's reason, it is not retried, and no enable is started for it;
\* enable_systemd_swap is started only after a write that succeeded.
C11_WriteFailureReportedOnce ==
    \A i \in DOMAIN flights :
        LET f == flights[i] IN
        /\ Occurrences(f.commands, "apply_config_with_pkexec") <= 1
        /\ "enable_systemd_swap" \in Range(f.commands) => f.written
        /\ (WriteReported(f) /\ ~f.written) =>
               /\ f.pc = "done"
               /\ f.commands = << "apply_config_with_pkexec" >>
               /\ Cardinality(NoticesWith(f, "Failed: {}")) = 1
               /\ f.notices[Len(f.notices)] = Toast("Failed: {}", f.message)
               /\ f.message \in FailureReasons

C11_Witness ==
    \E i \in DOMAIN flights :
        /\ flights[i].pc = "done"
        /\ IsWriteFlight(flights[i])
        /\ ~flights[i].written
        /\ flights[i].message = "Operation timed out"

\* C12: "Configuration Applied" is shown only when the write and the enable
\* both succeeded; a write that succeeded without a successful enable ends
\* with "Config saved but restart failed" or "Restart Required".
C12_AppliedOnlyAfterBoth ==
    \A i \in DOMAIN flights :
        LET f == flights[i]
            both == /\ f.written
                    /\ "enable_systemd_swap" \in Range(f.commands)
                    /\ f.pc = "done"
                    /\ f.success
        IN  /\ NoticesWith(f, "Configuration Applied") # {} => both
            /\ both => f.notices[Len(f.notices)].text = "Configuration Applied"
            /\ (f.pc = "done" /\ f.written /\ ~both) =>
                   /\ f.notices[Len(f.notices)].text \in
                          { "Config saved but restart failed: {}", "Restart Required" }
                   /\ f.notices[Len(f.notices)].text = "Restart Required"
                          <=> f.swap_in_use

C12_Witness ==
    /\ \E i \in DOMAIN flights :
           NoticesWith(flights[i], "Configuration Applied") # {}
    /\ \E i \in DOMAIN flights :
           NoticesWith(flights[i], "Config saved but restart failed: {}") # {}

\* C13: an apply attempt leaves the configuration file either as it was
\* (and a failure is reported) or holding exactly the new text (and success
\* is reported).
C13_AtomicReplace ==
    [][ \A i \in DOMAIN flights :
            (flights[i].pc = "write" /\ flights'[i].pc = "write_cb") =>
                IF flights'[i].written
                THEN confFile' = FileOf(flights[i].content, "whole")
                ELSE confFile' = confFile ]_vars

\* C14: with swap in use when the apply starts (mode not DISABLED) a write
\* that succeeded is never followed by enable_systemd_swap and ends with
\* "Restart Required"; with no swap in use it is followed by exactly one
\* enable_systemd_swap.
C14_NoRestartWhileSwapInUse ==
    \A i \in DOMAIN flights :
        LET f == flights[i] IN
        IsWriteFlight(f) =>
            /\ f.swap_in_use => "enable_systemd_swap" \notin Range(f.commands)
            /\ (f.swap_in_use /\ WriteReported(f) /\ f.written) =>
                   /\ f.pc = "done"
                   /\ f.notices[Len(f.notices)].text = "Restart Required"
            /\ (~f.swap_in_use /\ WriteReported(f) /\ f.written) =>
                   Occurrences(f.commands, "enable_systemd_swap") = 1

C14_Witness ==
    /\ \E i \in DOMAIN flights :
           /\ flights[i].swap_in_use
           /\ flights[i].written
           /\ flights[i].pc = "done"
    /\ \E i \in DOMAIN flights :
           /\ ~flights[i].swap_in_use
           /\ flights[i].written
           /\ flights[i].pc = "done"

\* C16: the advanced group is visible exactly when the mode is neither AUTO
\* nor DISABLED; when it is visible, the Zswap group (and the MGLRU group
\* where there is one) shows exactly in ZSWAP_SWAPFILE, the Zram group
\* exactly in ZRAM_SWAPFILE and ZRAM_ONLY, the Swap File group exactly in
\* ZSWAP_SWAPFILE and ZRAM_SWAPFILE.
C16_VisibilityFollowsMode ==
    LET mode == viewConfig.mode IN
    /\ visible.advanced <=> mode \notin {"SwapMode.AUTO", "SwapMode.DISABLED"}
    /\ visible.advanced =>
           /\ visible.zswap <=> mode = "SwapMode.ZSWAP_SWAPFILE"
           /\ visible.has_mglru => (visible.mglru <=> mode = "SwapMode.ZSWAP_SWAPFILE")
           /\ visible.zram <=> mode \in {"SwapMode.ZRAM_SWAPFILE", "SwapMode.ZRAM_ONLY"}
           /\ visible.swapfile <=> mode \in {"SwapMode.ZSWAP_SWAPFILE",
                                             "SwapMode.ZRAM_SWAPFILE"}

\* C18: applying SwapMode.DISABLED never writes the configuration file; with
\* swap in use no privileged command is started and "Restart Required" is
\* shown; otherwise exactly one stop_systemd_swap is started and nothing else.
C18_DisabledNeverWrites ==
    \A i \in DOMAIN flights :
        LET f == flights[i] IN
        ~IsWriteFlight(f) =>
            /\ confFile = FileOf(GenerateConfigContent(SwapConfig), "whole")
                  \/ \E j \in DOMAIN flights : IsWriteFlight(flights[j])
            /\ IF f.swap_in_use
               THEN /\ f.commands = << >>
                    /\ f.pc = "done"
                    /\ f.notices = << Dialog("Restart Required", "There is data in swap") >>
               ELSE f.commands = << "stop_systemd_swap" >>

C18_Witness ==
    /\ \E i \in DOMAIN flights :
           /\ ~IsWriteFlight(flights[i])
           /\ ~flights[i].swap_in_use
           /\ flights[i].pc = "done"
           /\ flights[i].success
    /\ \E i \in DOMAIN flights :
           ~IsWriteFlight(flights[i]) /\ flights[i].swap_in_use

\* C19: the has_changes last passed to on_config_changed is true exactly
\* when the edited configuration differs from the baseline in an edited
\* setting, the recompression switch and algorithm included.
C19_DirtyTracking ==
    hasChanges # << >> => (hasChanges[1] <=> EditedDiffers)

\* C20: while no apply is in flight the Apply button is sensitive exactly
\* when the edited configuration differs from the baseline.
C20_ApplySensitiveIffChanged ==
    (\A i \in DOMAIN flights : flights[i].pc = "done") =>
        (applyBtn <=> EditedDiffers)

\* C21: restore_defaults leaves the edited configuration equal to
\* SwapConfig(), leaves the baseline alone, starts no privileged operation
\* and then reports has_changes = (the defaults differ from the baseline).
C21_RestoreDefaults ==
    [][ RestoreDefaults =>
            /\ viewConfig' = SwapConfig
            /\ originalConfig' = originalConfig /\ originalExtra' = originalExtra
            /\ flights' = flights
            /\ hasChanges' = << SwapConfig # originalConfig >> ]_vars

\* this step leaves the baseline, the edited configuration and the has_changes
\* last reported as they are, with the Apply button sensitive
PendingKept ==
    /\ originalConfig' = originalConfig /\ originalExtra' = originalExtra
    /\ viewConfig' = viewConfig /\ viewExtra' = viewExtra
    /\ hasChanges' = hasChanges
    /\ applyBtn'

\* this step is mark_saved: the baseline becomes the edited configuration
BaselineTaken ==
    /\ originalConfig' = viewConfig /\ originalExtra' = viewExtra
    /\ viewConfig' = viewConfig /\ viewExtra' = viewExtra

\* flight i leaves position p in this step
Leaves(i, p) == flights[i].pc = p /\ flights'[i].pc # p

\* C23: an apply updates the baseline only when its privileged step succeeded:
\* mark_saved runs exactly when the write (mode not DISABLED) or the stop
\* (mode DISABLED) succeeded; a failed write, a failed stop and a DISABLED
\* apply refused because swap is in use leave baseline and edited
\* configuration as they were, with the changes still pending.
C23_BaselineOnlyAfterSuccess ==
    [][ /\ \A i \in DOMAIN flights :
               /\ (Leaves(i, "write_cb") \/ Leaves(i, "stop_cb")) =>
                      IF flights[i].success THEN BaselineTaken ELSE PendingKept
               /\ (Leaves(i, "write") \/ Leaves(i, "stop") \/ Leaves(i, "enable")
                       \/ Leaves(i, "enable_cb")) =>
                      originalConfig' = originalConfig /\ originalExtra' = originalExtra
        /\ (Len(flights') > Len(flights)
                /\ flights'[Len(flights')].content.mode = "SwapMode.DISABLED"
                /\ flights'[Len(flights')].swap_in_use) => PendingKept
        /\ (originalConfig' # originalConfig \/ originalExtra' # originalExtra) =>
               \E i \in DOMAIN flights :
                   /\ Leaves(i, "write_cb") \/ Leaves(i, "stop_cb")
                   /\ flights[i].success ]_vars

C23_Witness ==
    /\ \E i \in DOMAIN flights :
           /\ flights[i].pc = "done"
           /\ ~IsWriteFlight(flights[i])
           /\ ~flights[i].swap_in_use
           /\ ~flights[i].success
    /\ originalConfig = SwapConfig
    /\ viewConfig.mode = "SwapMode.DISABLED"
    /\ hasChanges = << TRUE >>
    /\ applyBtn

\* C24: after a successful apply the baseline is the configuration whose
\* rendered content was written to the file, whatever edits came between the
\* start of the write and its completion.
C24_BaselineIsWhatWasWritten ==
    [][ \A i \in DOMAIN flights :
            (Leaves(i, "write_cb") /\ flights[i].success) =>
                GenerateConfigContent(originalConfig') = flights[i].content ]_vars

\* C25: at most one apply is in flight at any time.
C25_OneApplyInFlight ==
    Cardinality({ i \in DOMAIN flights : flights[i].pc # "done" }) <= 1

-----------------------------------------------------------------------------
(* ui/unified_view.py: the periodic status poll: SpecPoll *)

\* the window variables _apply_status_update leaves alone
windowKept == <<viewConfig, viewExtra, originalConfig, originalExtra, loading,
                hasChanges, applyBtn, flights, confFile, userActions>>

\* threading.Thread(target=_fetch_status).start()
Started == [pc |-> "fetch", status |-> 0]

\* UnifiedView._update_swap_status, called by the 3000 ms timer: a worker is
\* started and True is returned, which keeps the timer
UpdateSwapStatus ==
    /\ statusTimer
    /\ polls < MaxPolls
    /\ polls' = polls + 1
    /\ workers' = Append(workers, Started)
    /\ statusTimer' = TRUE
    /\ UNCHANGED <<latestStatus, idleQueue, visible, windowKept, notWindowPoll>>

\* what get_status gives to the w-th poll started: the state of the system
\* when that poll asked, a different snapshot for each poll
SnapshotOf(w) == w

\* _fetch_status, worker w: swap_service.get_status returns snapshot s
GetStatusReturns(w, s) ==
    /\ workers[w].pc = "fetch"
    /\ workers' = [workers EXCEPT ![w] = [pc |-> "returned", status |-> s]]
    /\ UNCHANGED <<latestStatus, statusTimer, idleQueue, polls, visible,
                   windowKept, notWindowPoll>>

\* _fetch_status, worker w: swap_service.get_status raises
GetStatusRaises(w) ==
    /\ workers[w].pc = "fetch"
    /\ workers' = [workers EXCEPT ![w].pc = "raised"]
    /\ UNCHANGED <<latestStatus, statusTimer, idleQueue, polls, visible,
                   windowKept, notWindowPoll>>

\* _fetch_status, worker w: GLib.idle_add(self._apply_status_update, status)
QueueStatus(w) ==
    /\ workers[w].pc = "returned"
    /\ idleQueue' = Append(idleQueue, workers[w].status)
    /\ workers' = [workers EXCEPT ![w].pc = "end"]
    /\ UNCHANGED <<latestStatus, statusTimer, polls, visible, windowKept,
                   notWindowPoll>>

\* an exception handler that hands "no status" (None) to the main loop
ExceptQueuesNone(w) ==
    /\ workers[w].pc = "raised"
    /\ idleQueue' = Append(idleQueue, 0)
    /\ workers' = [workers EXCEPT ![w].pc = "end"]
    /\ UNCHANGED <<latestStatus, statusTimer, polls, visible, windowKept,
                   notWindowPoll>>

\* _fetch_status, worker w: except Exception: pass
ExceptPass(w) ==
    /\ workers[w].pc = "raised"
    /\ workers' = [workers EXCEPT ![w].pc = "end"]
    /\ UNCHANGED <<latestStatus, statusTimer, idleQueue, polls, visible,
                   windowKept, notWindowPoll>>

\* the main loop runs the queued _apply_status_update
DeliverStatus(serviceMode) ==
    /\ idleQueue # << >>
    /\ ApplyStatusUpdate(Head(idleQueue), serviceMode)
    /\ idleQueue' = Tail(idleQueue)
    /\ UNCHANGED <<statusTimer, workers, polls, windowKept, notWindowPoll>>

NextPoll ==
    \/ UpdateSwapStatus
    \/ \E w \in 1 .. Len(workers) : GetStatusReturns(w, SnapshotOf(w))
    \/ \E w \in 1 .. Len(workers) : GetStatusRaises(w)
    \/ \E w \in 1 .. Len(workers) : QueueStatus(w)
    \/ \E w \in 1 .. Len(workers) : ExceptPass(w)
    \/ \E m \in StatusModes : DeliverStatus(m)

\* UnifiedView._start_monitoring: the timer is installed and
\* _update_swap_status is called once
StartPoll ==
    /\ latestStatus = 0
    /\ statusTimer = TRUE
    /\ workers = << Started >>
    /\ idleQueue = << >>
    /\ polls = 0

\* the poll as the window flow sees it: the first snapshot has been applied
PolledOnce ==
    /\ latestStatus = 1
    /\ statusTimer = TRUE
    /\ workers = << >>
    /\ idleQueue = << >>
    /\ polls = 0

IdlePoll ==
    /\ latestStatus = 0
    /\ statusTimer = FALSE
    /\ workers = << >>
    /\ idleQueue = << >>
    /\ polls = 0

\* worker w ends in this step after get_status raised
FailedFetchEnds(w) == workers[w].pc = "raised" /\ workers'[w].pc = "end"

\* C15: a failing status poll is contained: when get_status raises in the
\* worker nothing reaches the main loop, the snapshot shown stays the one of
\* the last poll that succeeded, and the timer keeps running, so that later
\* polls are still started.
C15_PollFailureContained ==
    /\ [](statusTimer /\ \A k \in DOMAIN idleQueue : idleQueue[k] # 0)
    /\ [][ \A w \in DOMAIN workers :
               FailedFetchEnds(w) =>
                   /\ latestStatus' = latestStatus
                   /\ idleQueue' = idleQueue
                   /\ visible' = visible
                   /\ statusTimer' ]_vars

C15_Witness ==
    \E w \in DOMAIN workers :
        /\ workers[w] = [pc |-> "end", status |-> 0]
        /\ w > 1 /\ workers[w - 1] = [pc |-> "end", status |-> 1]
        /\ latestStatus = 1
        /\ w < Len(workers) /\ workers[w + 1].pc = "returned"

\* C22: snapshots are applied in the order their polls were started: the
\* snapshot of an earlier poll never replaces the snapshot of a later one.
C22_SnapshotsInPollOrder == [][ latestStatus' >= latestStatus ]_vars

-----------------------------------------------------------------------------
(* ui/memory_chart.py: MemoryChartWidget: SpecChart *)

CHART_MAX_HISTORY == 60

\* a float: a number (in percent), or NaN
Float(x) == [nan |-> FALSE, v |-> x]
NaN == [nan |-> TRUE, v |-> 0]

\* a > b and a < b on floats: every comparison with NaN is false
FloatGt(a, b) == ~a.nan /\ ~b.nan /\ a.v > b.v
FloatLt(a, b) == ~a.nan /\ ~b.nan /\ a.v < b.v

\* max(a, b) and min(a, b) of Python: b replaces a only if b > a (b < a)
PyMax(a, b) == IF FloatGt(b, a) THEN b ELSE a
PyMin(a, b) == IF FloatLt(b, a) THEN b ELSE a

\* min(100.0, max(0.0, x))
Clamp(x) == PyMin(Float(100), PyMax(Float(0), x))

\* list.append: the sequence grows without bound, as a deque without maxlen
ListAppend(q, x, maxlen) == Append(q, x)

\* deque(maxlen=maxlen).append(x): a full deque drops its leftmost element
DequeAppend(q, x, maxlen) ==
    IF Len(q) >= maxlen THEN Append(Tail(q), x) ELSE Append(q, x)

\* percentages passed to add_data_point: below 0, the ends of the range,
\* inside it, above 100, and NaN
Samples == << Float(-50), Float(0), Float(37), Float(100), Float(250), NaN >>

\* the (mem, swap, zswap) percentages of the n-th call
ChartInput(n, ph) ==
    [ mem   |-> Samples[((n + ph) % Len(Samples)) + 1],
      swap  |-> Samples[((n + ph + 2) % Len(Samples)) + 1],
      zswap |-> Samples[((2 * n + ph) % Len(Samples)) + 1] ]

\* MemoryChartWidget.add_data_point
AddDataPoint ==
    /\ added < MaxPoints
    /\ LET in == ChartInput(added + 1, phase)
           point == [ call               |-> added + 1,
                      mem_used_percent   |-> Clamp(in.mem),
                      swap_used_percent  |-> Clamp(in.swap),
                      zswap_percent      |-> Clamp(in.zswap) ]
       IN  history' = DequeAppend(history, point, CHART_MAX_HISTORY)
    /\ chartTexts' = added + 1
    /\ added' = added + 1
    /\ UNCHANGED <<phase, notChart>>

\* MemoryChartWidget.clear
ChartClear ==
    /\ history # <<>>
    /\ history' = <<>>
    /\ chartTexts' = 0
    /\ UNCHANGED <<added, phase, notChart>>

NextChart == AddDataPoint \/ ChartClear

\* MemoryChartWidget.__init__
StartChart ==
    /\ history = <<>>
    /\ chartTexts = 0
    /\ added = 0
    /\ phase \in 0 .. Len(Samples) - 1

IdleChart ==
    /\ history = <<>>
    /\ chartTexts = 0
    /\ added = 0
    /\ phase = 0

\* C17: the history never holds more than CHART_MAX_HISTORY points; it holds
\* the points of the latest calls since the last clear, oldest first, so a
\* point added to a full history evicted exactly the oldest one; and every
\* stored percentage lies in [0, 100] whatever was passed in.
C17_HistoryBounded ==
    /\ Len(history) <= CHART_MAX_HISTORY
    /\ \A i \in 1 .. Len(history) :
           /\ history[i].call = added - Len(history) + i
           /\ \A k \in {"mem_used_percent", "swap_used_percent", "zswap_percent"} :
                  /\ ~history[i][k].nan
                  /\ history[i][k].v >= 0
                  /\ history[i][k].v <= 100

\* a full history after more than CHART_MAX_HISTORY calls: the oldest points
\* are gone, the last call passed 250 and -50 and the call before it NaN
C17_Witness ==
    /\ Len(history) = CHART_MAX_HISTORY
    /\ added > CHART_MAX_HISTORY + 1
    /\ history[1].call = added - CHART_MAX_HISTORY + 1
    /\ ChartInput(added, phase).mem = Float(250)
    /\ ChartInput(added, phase).swap = Float(-50)
    /\ ChartInput(added - 1, phase).swap.nan
    /\ history[CHART_MAX_HISTORY].mem_used_percent = Float(100)
    /\ history[CHART_MAX_HISTORY].swap_used_percent = Float(0)
    /\ history[CHART_MAX_HISTORY - 1].swap_used_percent = Float(0)

-----------------------------------------------------------------------------
(* The specifications *)

Init == StartParse /\ IdleFleet /\ IdleStats /\ IdleWindow /\ IdlePoll /\ IdleChart
Next == NextParse
Spec == Init /\ [][Next]_vars

InitFleet == IdleParse /\ StartFleet /\ IdleStats /\ IdleWindow /\ IdlePoll /\ IdleChart
SpecFleet == InitFleet /\ [][NextFleet]_vars

InitSizing == IdleParse /\ StartSizing /\ IdleStats /\ IdleWindow /\ IdlePoll /\ IdleChart
SpecSizing == InitSizing /\ [][NextSizing]_vars

InitPartitions ==
    IdleParse /\ StartPartitions /\ IdleStats /\ IdleWindow /\ IdlePoll /\ IdleChart
SpecPartitions == InitPartitions /\ [][NextPartitions]_vars

InitStats == IdleParse /\ IdleFleet /\ StartStats /\ IdleWindow /\ IdlePoll /\ IdleChart
SpecStats == InitStats /\ [][NextStats]_vars

InitWindow == IdleParse /\ IdleFleet /\ IdleStats /\ StartWindow /\ PolledOnce /\ IdleChart
SpecWindow == InitWindow /\ [][NextWindow]_vars

\* the window with the actions of the application as well
NextWindowActions ==
    \/ NextWindow
    \/ \E inUse \in BOOLEAN : OnApplyConfigAction(inUse)

SpecWindowActions == InitWindow /\ [][NextWindowActions]_vars

InitPoll == IdleParse /\ IdleFleet /\ IdleStats /\ StartWindow /\ StartPoll /\ IdleChart
SpecPoll == InitPoll /\ [][NextPoll]_vars

InitChart == IdleParse /\ IdleFleet /\ IdleStats /\ IdleWindow /\ IdlePoll /\ StartChart
SpecChart == InitChart /\ [][NextChart]_vars

=============================================================================
